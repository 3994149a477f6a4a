------------------------------ MODULE Streams ------------------------------
(***************************************************************************)
(* Streams (core/stream.go): WriteStreamObject and readStreamListPacks,    *)
(* over the three versions of the type.  The model's records have the      *)
(* names of the structs of model/stream.go; an ID is <<ms, sequence>>.     *)
(* The key of the object and the records around it are in RdbFile.         *)
(***************************************************************************)
EXTENDS ValueCodecs
LOCAL INSTANCE SequencesExt

NilId  == <<>>
ZeroId == <<Zero, Zero>>

-----------------------------------------------------------------------------
(* The encoder. *)

streamType(version) == CASE version = 2 -> 19 [] version = 3 -> 21 [] OTHER -> 15

writeSized(xs, W(_)) == writeLength(Word(Len(xs))) \o FlattenSeq([ i \in DOMAIN xs |-> W(xs[i]) ])

writeStreamId(id) == writeLength(id[1]) \o writeLength(id[2])
rawStreamId(id)   == BE(id[1], 8) \o BE(id[2], 8)

(* The entries of a listpack. *)
Number(n) == << <<"int", Word(n)>> >>
Str(s)    == << <<"str", s>> >>
Itoa(n)   == Str(<<"int", Word(n)>>)

(* A wrong variant: as many fields as the master entry are the same fields.*)
sameFields_count(msg, fields) == Cardinality(DOMAIN msg.Fields) = Len(fields)

sameFields(msg, fields) ==
    /\ Cardinality(DOMAIN msg.Fields) = Len(fields)
    /\ ToSet(fields) \subseteq DOMAIN msg.Fields

(* names: the order in which the maps of fields are walked. *)
MessageEntries(msg, entry, names) ==
    LET same == sameFields(msg, entry.Fields)
        flag == (IF msg.Deleted THEN 1 ELSE 0) + (IF same THEN 2 ELSE 0)
        own  == SelectSeq(names, LAMBDA f : f \in DOMAIN msg.Fields)
        value(f) == Str(IF f \in DOMAIN msg.Fields THEN msg.Fields[f] ELSE Empty)
    IN  Number(flag)
          \o << <<"int", Sub(msg.Id[1], entry.FirstMsgId[1])>>,
                <<"int", Sub(msg.Id[2], entry.FirstMsgId[2])>> >>
          \o (IF same
              THEN FlattenSeq([ i \in DOMAIN entry.Fields |-> value(entry.Fields[i]) ])
              ELSE Number(Len(own))
                     \o FlattenSeq([ i \in DOMAIN own |-> Str(own[i]) \o value(own[i]) ]))
          \o Itoa(Len(own))

writeStreamEntryContent(entry, names) ==
    LET deleted == Len(SelectSeq(entry.Msgs, LAMBDA m : m.Deleted))
        master  == FlattenSeq([ i \in DOMAIN entry.Fields |-> Str(entry.Fields[i]) ])
        msgs    == [ i \in DOMAIN entry.Msgs |-> MessageEntries(entry.Msgs[i], entry, names) ]
    IN  writeImage(buildListpackWithBacklen(
          Number(Len(entry.Msgs) - deleted) \o Number(deleted)
            \o Number(Len(entry.Fields)) \o master \o Itoa(Len(entry.Fields))
            \o FlattenSeq(msgs)))

writeStreamEntries(entries, names) ==
    writeSized(entries, LAMBDA e : writeImage(rawStreamId(e.FirstMsgId))
                                     \o writeStreamEntryContent(e, names))

writePending(p) ==
    rawStreamId(p.Id) \o LE(p.DeliveryTime, 8) \o writeLength(p.DeliveryCount)

writeConsumer(c, version) ==
    writeString(c.Name) \o LE(c.SeenTime, 8)
      \o (IF version >= 3 THEN LE(c.ActiveTime, 8) ELSE <<>>)
      \o writeSized(c.Pending, rawStreamId)

writeStreamGroups(groups, version) ==
    writeSized(groups, LAMBDA g :
      writeString(g.Name) \o writeStreamId(g.LastId)
        \o (IF version >= 2 THEN writeLength(g.EntriesRead) ELSE <<>>)
        \o writeSized(g.Pending, writePending)
        \o writeSized(g.Consumers, LAMBDA c : writeConsumer(c, version)))

WriteStreamObject(s, names) ==
    LET IdOrZero(id) == writeStreamId(IF id = NilId THEN ZeroId ELSE id)
    IN  Bytes(<<streamType(s.Version)>>)
          \o writeStreamEntries(s.Entries, names)
          \o writeLength(s.Length) \o writeStreamId(s.LastId)
          \o (IF s.Version >= 2
              THEN IdOrZero(s.FirstId) \o IdOrZero(s.MaxDeletedId)
                     \o writeLength(s.AddedEntriesCount)
              ELSE <<>>)
          \o writeStreamGroups(s.Groups, s.Version)

-----------------------------------------------------------------------------
(* The decoder. *)

readSized(buf, p, Read(_)) ==
    Then(readLength(buf, p), LAMBDA n : readMany(buf, n.pos, n.val, Read))

readStreamId(buf, p) ==
    readPair(p, LAMBDA q : readLength(buf, q), LAMBDA q : readLength(buf, q))
readRawId(buf, p) ==
    readPair(p, LAMBDA q : readBE(buf, q, 8), LAMBDA q : readBE(buf, q, 8))

(* m[field] = value in a loop: the last write of a field stays. *)
MapOf(ps) ==
    [ f \in {ps[i][1] : i \in DOMAIN ps} |->
        ps[CHOOSE i \in DOMAIN ps :
             ps[i][1] = f /\ \A j \in (i+1)..Len(ps) : ps[j][1] # f][2] ]

isDeleted(flag) == flag[1] % 2 = 1
isSame(flag)    == (flag[1] \div 2) % 2 = 1

readMessage(buf, p, first, master) ==
    LET AsInt(q)  == readListPackEntryAsInt(buf, q)
        AsText(q) == readListPackEntryAsString(buf, q)
        Message(q, flag, ms, seq, fields) ==
          As(AsText(q), LAMBDA lpCount :
             [ Id |-> <<Add(ms, first[1]), Add(seq, first[2])>>,
               Fields |-> MapOf(fields), Deleted |-> isDeleted(flag) ])
        Values(q) == As(readN(q, Len(master), AsText), LAMBDA vs :
                        [ i \in DOMAIN master |-> <<master[i], vs[i]>> ])
        Pairs(q)  == Then(AsInt(q), LAMBDA n :
                       readMany(buf, n.pos, n.val, LAMBDA r : readPair(r, AsText, AsText)))
    IN  Then(readN(p, 3, AsInt), LAMBDA head :      \* flag, ms and sequence
          Then(IF isSame(head.val[1]) THEN Values(head.pos) ELSE Pairs(head.pos), LAMBDA fs :
            Message(fs.pos, head.val[1], head.val[2], head.val[3], fs.val)))

readStreamEntryContent(buf, first) ==
    LET AsInt(q)  == readListPackEntryAsInt(buf, q)
        AsText(q) == readListPackEntryAsString(buf, q)
        Counts == Then(Skip(buf, 1, 6), LAMBDA h : readN(h.pos, 3, AsInt))
    IN  Then(Counts, LAMBDA n :     \* messages, deleted messages, fields
          Then(readMany(buf, n.pos, n.val[3], AsText), LAMBDA fs :
            Then(AsText(fs.pos), LAMBDA lpCount :
              As(readMany(buf, lpCount.pos, Add(n.val[1], n.val[2]),
                          LAMBDA q : readMessage(buf, q, first, fs.val)),
                 LAMBDA ms : [ FirstMsgId |-> first, Fields |-> fs.val, Msgs |-> ms ]))))

(* Both strings are read before they are looked into. *)
readStreamEntry(buf, p) ==
    Then(readN(p, 2, LAMBDA q : readImage(buf, q)), LAMBDA both :
      [ Then(readRawId(both.val[1], 1),
             LAMBDA id : readStreamEntryContent(both.val[2], id.val)) EXCEPT !.pos = both.pos ])

readPending(buf, p) ==
    Then(readRawId(buf, p), LAMBDA id : Then(readLE(buf, id.pos, 8), LAMBDA t :
      As(readLength(buf, t.pos), LAMBDA n :
         [ Id |-> id.val, DeliveryTime |-> t.val, DeliveryCount |-> n ])))

(* A consumer without an active time of its own gets the seen time. *)
readConsumer(buf, p, version) ==
    Then(readString(buf, p), LAMBDA name : Then(readLE(buf, name.pos, 8), LAMBDA seen :
      Then(IF version >= 3 THEN readLE(buf, seen.pos, 8) ELSE seen, LAMBDA active :
        As(readSized(buf, active.pos, LAMBDA q : readRawId(buf, q)), LAMBDA ids :
           [ Name |-> name.val, SeenTime |-> seen.val, ActiveTime |-> active.val,
             Pending |-> ids ]))))

(* The error of a group's name is dropped: the reading goes on behind it. *)
readStreamGroup(buf, p, version) ==
    With(readString(buf, p), LAMBDA r :
      LET name == IF r.st = "error" THEN Done(r.pos, Empty) ELSE r IN
      Then(name, LAMBDA g : Then(readStreamId(buf, g.pos), LAMBDA last :
        Then(IF version >= 2 THEN readLength(buf, last.pos) ELSE Done(last.pos, Zero), LAMBDA n :
          Then(readSized(buf, n.pos, LAMBDA q : readPending(buf, q)), LAMBDA ps :
            As(readSized(buf, ps.pos, LAMBDA q : readConsumer(buf, q, version)), LAMBDA cs :
               [ Name |-> g.val, LastId |-> last.val, EntriesRead |-> n.val,
                 Pending |-> ps.val, Consumers |-> cs ]))))))

(* A wrong variant: an error while reading the groups ends the list. *)
readStreamGroups_lenient(buf, p, version) ==
    With(readSized(buf, p, LAMBDA q : readStreamGroup(buf, q, version)), LAMBDA gs :
         IF gs.st = "ok" THEN gs ELSE Done(gs.pos, <<>>))

readStreamGroups(buf, p, version) ==
    readSized(buf, p, LAMBDA q : readStreamGroup(buf, q, version))

(* The ids of version 2, nil in version 1. *)
readVersion2(buf, p, version) ==
    IF version < 2 THEN Done(p, <<NilId, NilId, Zero>>)
    ELSE Then(readStreamId(buf, p), LAMBDA first :
           Then(readStreamId(buf, first.pos), LAMBDA max :
             As(readLength(buf, max.pos), LAMBDA n : <<first.val, max.val, n>>)))

readStreamListPacks(buf, p, version) ==
    Then(readSized(buf, p, LAMBDA q : readStreamEntry(buf, q)), LAMBDA es :
      Then(readLength(buf, es.pos), LAMBDA len : Then(readStreamId(buf, len.pos), LAMBDA last :
        Then(readVersion2(buf, last.pos, version), LAMBDA v2 :
          As(readStreamGroups(buf, v2.pos, version), LAMBDA gs :
             [ Version |-> version, Entries |-> es.val, Length |-> len.val, LastId |-> last.val,
               FirstId |-> v2.val[1], MaxDeletedId |-> v2.val[2],
               AddedEntriesCount |-> v2.val[3], Groups |-> gs ])))))

(* The type flag readObject dispatches on, then the value. *)
readStream(buf) ==
    Then(Then(readByte(buf, 1), LAMBDA t :
           IF t.val \in {15, 19, 21}
           THEN Done(t.pos, CASE t.val = 15 -> 1 [] t.val = 19 -> 2 [] t.val = 21 -> 3)
           ELSE Fail(t.pos, "error")),
         LAMBDA version : readStreamListPacks(buf, version.pos, version.val))
=============================================================================
