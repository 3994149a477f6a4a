-------------------------------- MODULE Resp --------------------------------
(***************************************************************************)
(* helper/resp.go: an object as the commands that create it, and what a    *)
(* Redis that loads them makes of them.  A command is <<name, key, args>>. *)
(*                                                                         *)
(* Values: a string, a sequence (list), a set, a function of the fields    *)
(* (hash), of the members (zset), for a stream the messages of all entries *)
(* in a sequence, the last ID and the names of the groups.  fieldExps maps *)
(* every field of a hash with field expirations to one, 0 for none, and is *)
(* empty for another hash.                                                 *)
(***************************************************************************)
EXTENDS Integers, Sequences, FiniteSets, SequencesExt, Functions

NoExp == -1

streamToCmd(object) ==
    LET msgs == object.value.msgs
    IN  [ i \in DOMAIN msgs |-> << "XADD", object.key, <<msgs[i].id, msgs[i].fields>> >> ]

FieldExpCmd(object, f) ==
    IF object.fieldExps[f] = 0 THEN << "HPERSIST", object.key, f >>
                               ELSE << "HPEXPIREAT", object.key, <<f, object.fieldExps[f]>> >>

hashToCmd(object) ==
    << << "HMSET", object.key, object.value >> >>
      \o (IF Cardinality(DOMAIN object.fieldExps) = Cardinality(DOMAIN object.value)
          THEN LET fields == SetToSeq(DOMAIN object.fieldExps)
               IN  [ i \in DOMAIN fields |-> FieldExpCmd(object, fields[i]) ]
          ELSE <<>>)

CreateCmds(object) ==
    CASE object.kind = "string" -> << << "SET", object.key, object.value >> >>
      [] object.kind = "list"   -> << << "RPUSH", object.key, object.value >> >>
      [] object.kind = "set"    -> << << "SADD", object.key, object.value >> >>
      [] object.kind = "hash"   -> hashToCmd(object)
      [] object.kind = "zset"   -> << << "ZADD", object.key, object.value >> >>
      [] object.kind = "stream" -> streamToCmd(object)
      [] OTHER -> <<>>                      \* module, aux, functions

makeExpireCmd(object) ==
    IF object.exp = NoExp THEN <<>> ELSE << << "PEXPIREAT", object.key, object.exp >> >>

(* A wrong variant: an expiration before there is anything to expire. *)
ObjectToCmd_expire_first(object) == makeExpireCmd(object) \o CreateCmds(object)

ObjectToCmd(object) == CreateCmds(object) \o makeExpireCmd(object)

-----------------------------------------------------------------------------
(* Redis: base maps a key to its value, its expiration and those of its    *)
(* fields.  A file that is loaded expires nothing.                         *)

Entry(base, key) == IF key \in DOMAIN base THEN base[key]
                    ELSE [value |-> <<>>, exp |-> NoExp, fieldExps |-> <<>>]
Set(base, key, entry) == [ k \in DOMAIN base \cup {key} |-> IF k = key THEN entry ELSE base[k] ]

NewStream == [msgs |-> <<>>, lastId |-> << 0, 0 >>, groups |-> {}]
Later(a, b) == a[1] > b[1] \/ (a[1] = b[1] /\ a[2] > b[2])

Loaded(base, cmd) ==
    LET key == cmd[2]
        args == cmd[3]
        e == Entry(base, key)
        new == key \notin DOMAIN base
    IN  CASE cmd[1] = "SET" -> Set(base, key, [value |-> args, exp |-> NoExp, fieldExps |-> <<>>])
          [] cmd[1] = "RPUSH" -> Set(base, key, [e EXCEPT !.value = @ \o args])
          [] cmd[1] \in {"HMSET", "ZADD"} ->
                Set(base, key, [e EXCEPT !.value = args @@ IF new THEN <<>> ELSE @])
          [] cmd[1] = "SADD" -> Set(base, key, [e EXCEPT !.value = args \cup IF new THEN {} ELSE @])
          [] cmd[1] = "XADD" ->
                LET stream == IF new THEN NewStream ELSE e.value
                    added == [id |-> args[1], fields |-> args[2]]
                IN  IF Later(args[1], stream.lastId)
                    THEN Set(base, key, [e EXCEPT !.value = [stream EXCEPT !.msgs = Append(@, added),
                                                                           !.lastId = args[1]]])
                    ELSE base
          [] cmd[1] = "PEXPIREAT" -> IF new THEN base ELSE Set(base, key, [e EXCEPT !.exp = args])
          [] cmd[1] = "HPERSIST" ->
                IF new THEN base
                ELSE Set(base, key, [e EXCEPT !.fieldExps = Restrict(@, DOMAIN @ \ {args})])
          [] cmd[1] = "HPEXPIREAT" ->
                IF new THEN base ELSE Set(base, key, [e EXCEPT !.fieldExps = (args[1] :> args[2]) @@ @])

Replay(cmds) == FoldLeft(Loaded, <<>>, cmds)

-----------------------------------------------------------------------------
(* The value an object has in Redis, and whether commands can give it: a   *)
(* stream must have messages, none of them deleted, the last of which has  *)
(* the last ID, and no groups.                                             *)
Alive(stream) ==
    LET alive == SelectSeq(stream.msgs, LAMBDA m : ~m.deleted)
    IN  [stream EXCEPT !.msgs = [ i \in DOMAIN alive |-> [id |-> alive[i].id, fields |-> alive[i].fields] ]]

InRedis(object) ==
    [value |-> IF object.kind = "stream" THEN Alive(object.value) ELSE object.value,
     exp |-> object.exp,
     fieldExps |-> Restrict(object.fieldExps, {f \in DOMAIN object.fieldExps : object.fieldExps[f] # 0})]

Storable(object) ==
    object.kind = "stream" =>
      LET msgs == object.value.msgs
      IN  /\ msgs # <<>> /\ \A i \in DOMAIN msgs : ~msgs[i].deleted
          /\ object.value.lastId = Last(msgs).id
          /\ object.value.groups = {}
=============================================================================
