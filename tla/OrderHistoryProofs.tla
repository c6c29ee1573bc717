--------------------------- MODULE OrderHistoryProofs ---------------------------
(***************************************************************************)
(* What the history of decisions tells of the orders, for every set of     *)
(* posted items, of polls and of orders.                                   *)
(*                                                                         *)
(* First, out-of-order arrival: a field version names the newest event     *)
(* that set the field, and the amount and currency of an order are what    *)
(* the newest event that named them says.  Both theorems say that a field  *)
(* tells of the newest of some decisions.  It is proved, about a log and a *)
(* field taken on their own, that one more decision keeps this true; the   *)
(* rest shows that every step of the engine appends such a decision, or    *)
(* none.                                                                   *)
(*                                                                         *)
(* Then the audit log: replaying it yields every order row, and what an    *)
(* order has paid and had refunded is the sum of what it records.  Both    *)
(* are about recursive functions over the log.  Their proofs go by         *)
(* induction on sets of numbers, as a theorem cannot be given an operator. *)
(***************************************************************************)
EXTENDS EventEngineProofs, WellFoundedInduction

-----------------------------------------------------------------------------
\* A log and a field.

\* In the log H, entry k is about the newest event among the entries ks, the
\* first such.
Newest(H, k, ks) ==
  /\ k \in ks
  /\ \A j \in ks : \/ H[j].event.timestamp < H[k].event.timestamp
                   \/ H[j].event.timestamp = H[k].event.timestamp /\ k <= j

\* A field with version timestamp ts and contents w tells of the newest of the
\* entries ks, where entry k gives it the contents W[k]; without any it is none.
Tells(H, ks, W, none, ts, w) ==
  IF ks = {} THEN ts = NULL /\ w = none
  ELSE \E k \in ks : Newest(H, k, ks) /\ ts = H[k].event.timestamp /\ w = W[k]

\* Log G is log H and one more entry n, about event e and with decision d.
Grown(H, G, n, e, d) ==
  /\ DOMAIN H \subseteq Nat /\ n \in Nat
  /\ DOMAIN G = DOMAIN H \cup {n}
  /\ \A k \in DOMAIN H : k < n /\ G[k] = H[k]
  /\ G[n] = [event |-> e, decision |-> d]

\* The entries ks are about events with a time.
Timed(H, ks) == ks \subseteq DOMAIN H /\ \A k \in ks : H[k].event.timestamp \in Int

\* A decision more: it is the newest if it is later than the newest so far.
LEMMA NewestGrows ==
  ASSUME NEW H, NEW G, NEW n, NEW e, NEW d, Grown(H, G, n, e, d),
         NEW ks, Timed(H, ks), e.timestamp \in Int
  PROVE  /\ Newest(G, n, {n})
         /\ \A k : Newest(H, k, ks) =>
              /\ Newest(G, k, ks)
              /\ e.timestamp > H[k].event.timestamp => Newest(G, n, ks \cup {n})
              /\ ~(e.timestamp > H[k].event.timestamp) => Newest(G, k, ks \cup {n})
<1>1. /\ n \in Nat /\ G[n].event.timestamp = e.timestamp
      /\ \A k \in ks : /\ k \in Nat /\ k < n /\ G[k] = H[k]
                       /\ H[k].event.timestamp \in Int
  BY DEF Grown, Timed
<1>2. Newest(G, n, {n})
  BY <1>1 DEF Newest
<1>3. ASSUME NEW k, Newest(H, k, ks)
      PROVE  /\ Newest(G, k, ks)
             /\ e.timestamp > H[k].event.timestamp => Newest(G, n, ks \cup {n})
             /\ ~(e.timestamp > H[k].event.timestamp) => Newest(G, k, ks \cup {n})
  BY <1>1, <1>3 DEF Newest
<1> QED
  BY <1>2, <1>3

\* A decision that is not among those the field tells of leaves it alone.
LEMMA TellsStays ==
  ASSUME NEW H, NEW G, NEW n, NEW e, NEW d, Grown(H, G, n, e, d),
         NEW ks, ks \subseteq DOMAIN H,
         NEW W, NEW V, \A k \in ks : V[k] = W[k],
         NEW none, NEW ts, NEW w, Tells(H, ks, W, none, ts, w)
  PROVE  Tells(G, ks, V, none, ts, w)
<1>1. \A k \in ks : G[k] = H[k]
  BY DEF Grown
<1>2. ASSUME NEW k \in ks, Newest(H, k, ks)
      PROVE  Newest(G, k, ks)
  BY <1>1, <1>2 DEF Newest
<1> QED
  BY <1>1, <1>2 DEF Tells

\* A decision that joins them sets the field if its event is newer than the
\* version of the field.
LEMMA TellsGrows ==
  ASSUME NEW H, NEW G, NEW n, NEW e, NEW d, Grown(H, G, n, e, d),
         NEW ks, Timed(H, ks), e.timestamp \in Int,
         NEW W, NEW V, \A k \in ks : V[k] = W[k],
         NEW none, NEW ts, NEW w, Tells(H, ks, W, none, ts, w),
         NEW newTs, NEW newW,
         IF ts = NULL \/ e.timestamp > ts THEN newTs = e.timestamp /\ newW = V[n]
                                          ELSE newTs = ts /\ newW = w
  PROVE  Tells(G, ks \cup {n}, V, none, newTs, newW)
<1>1. G[n].event.timestamp = e.timestamp /\ \A k \in ks : G[k] = H[k]
  BY DEF Grown, Timed
<1>2. CASE ks = {}
  <2>1. newTs = e.timestamp /\ newW = V[n]
    BY <1>2 DEF Tells
  <2>2. Newest(G, n, ks \cup {n})
    <3>1. ks \cup {n} = {n}
      BY <1>2
    <3> QED
      BY <3>1, NewestGrows
  <2> QED
    BY <1>1, <2>1, <2>2 DEF Tells
<1>3. CASE ks # {}
  <2>1. PICK k \in ks : Newest(H, k, ks) /\ ts = H[k].event.timestamp /\ w = W[k]
    BY <1>3 DEF Tells
  <2>2. ts # NULL
    BY <2>1, NullAssumption DEF Timed
  <2>3. CASE e.timestamp > ts
    <3>1. Newest(G, n, ks \cup {n})
      BY <2>1, <2>3, NewestGrows
    <3> QED
      BY <1>1, <2>3, <3>1 DEF Tells
  <2>4. CASE ~(e.timestamp > ts)
    <3>1. Newest(G, k, ks \cup {n})
      BY <2>1, <2>4, NewestGrows
    <3> QED
      BY <1>1, <2>1, <2>2, <2>4, <3>1 DEF Tells
  <2> QED
    BY <2>3, <2>4
<1> QED
  BY <1>2, <1>3

-----------------------------------------------------------------------------
\* One event and one field of its order.

\* What an outcome does to field f of the order and its version: a recorded change
\* is written when the event is newer than the version, and only the status may
\* be recorded as changed by an older one.
LEMMA FieldOfOutcome ==
  ASSUME NEW o \in Order, NEW v \in Versions, NEW e \in Event, NEW out,
         Refused(o, v, out) \/ TakesEffect(o, v, e, out),
         Missing(o) => v = NoVersions, NEW f \in VersionedFields
  PROVE  LET set == out.changedFields[f] # NULL /\ CanApplyField(v, f, e)
         IN  /\ out.versions[f] = IF set THEN [timestamp |-> e.timestamp,
                                               eventId |-> e.eventId] ELSE v[f]
             /\ f # "status" =>
                  /\ out.order[f] = IF set THEN out.changedFields[f] ELSE o[f]
                  /\ out.changedFields[f] # NULL => set
<1>1. Missing(o) => CanApplyField(v, f, e)
  BY DEF CanApplyField, NoVersions
<1>2. Patched(o, out.changedFields)[f] = Coalesce(out.changedFields[f], o[f])
  <2>1. f \in {"status", "amountMinor", "currency"}
    BY DEF VersionedFields
  <2> QED
    BY <2>1 DEF Patched
<1>3. CASE Refused(o, v, out)
  <2>1. NoChanges[f] = NULL
    BY DEF VersionedFields, NoChanges
  <2> QED
    BY <1>3, <2>1 DEF Refused
<1>4. CASE TakesEffect(o, v, e, out)
  BY <1>1, <1>2, <1>4 DEF TakesEffect, Sets, Coalesce
<1> QED
  BY <1>3, <1>4

-----------------------------------------------------------------------------
\* One more decision.

SettersIn(H, o, f) ==
  {k \in DOMAIN H : H[k].event.orderId = o /\ H[k].decision.changedFields[f] # NULL}

SpeakersIn(H, o, f) ==
  {k \in DOMAIN H : /\ H[k].event.orderId = o /\ Evaluated(H[k].decision)
                    /\ Speaks(H[k].event, H[k].decision, f)}

SetBy(H, f) ==
  [k \in DOMAIN H |->
     <<H[k].event.eventId, IF f = "status" THEN NULL ELSE H[k].decision.changedFields[f]>>]

SaidBy(H, f) == [k \in DOMAIN H |-> ReadOrderUpdateChanges(H[k].event.payload)[f]]

\* The version of field f names the event that set it, and the row of the order
\* has the value it gave.
FieldSet(H, o, f, row, version) ==
  Tells(H, SettersIn(H, o, f), SetBy(H, f), <<NULL, NULL>>, version.timestamp,
        <<version.eventId, IF f = "status" THEN NULL ELSE row[f]>>)

\* The version of set-like field f names the newest event that spoke about it,
\* and the row of the order has what it said.
FieldSaid(H, o, f, row, version) ==
  Tells(H, SpeakersIn(H, o, f), SaidBy(H, f), NULL, version.timestamp, row[f])

\* Only well-formed events are evaluated, and only those change anything.
Sound(H) ==
  \A k \in DOMAIN H : IF Evaluated(H[k].decision) THEN H[k].event \in Event
                      ELSE H[k].decision.changedFields = NoChanges

\* Decisions about fields are about events with a timestamp.
LEMMA SoundTimes ==
  ASSUME NEW H, Sound(H), NEW o, NEW f \in VersionedFields
  PROVE  Timed(H, SettersIn(H, o, f)) /\ Timed(H, SpeakersIn(H, o, f))
<1>1. NoChanges[f] = NULL
  BY DEF VersionedFields, NoChanges
<1>2. \A k \in DOMAIN H : Evaluated(H[k].decision) => H[k].event.timestamp \in Int
  BY DEF Sound, Event
<1>3. \A k \in SettersIn(H, o, f) : k \in DOMAIN H /\ Evaluated(H[k].decision)
  BY <1>1 DEF SettersIn, Sound
<1>4. \A k \in SpeakersIn(H, o, f) : k \in DOMAIN H /\ Evaluated(H[k].decision)
  BY DEF SpeakersIn
<1> QED
  BY <1>2, <1>3, <1>4 DEF Timed

\* How the entries that count for a field of order o, and what they give it, are
\* affected by one more.
LEMMA SettersGrow ==
  ASSUME NEW H, NEW G, NEW n, NEW e, NEW d, Grown(H, G, n, e, d), NEW o, NEW f
  PROVE  /\ SettersIn(G, o, f) = IF e.orderId = o /\ d.changedFields[f] # NULL
                                 THEN SettersIn(H, o, f) \cup {n} ELSE SettersIn(H, o, f)
         /\ SettersIn(H, o, f) \subseteq DOMAIN H
         /\ \A k \in SettersIn(H, o, f) : SetBy(G, f)[k] = SetBy(H, f)[k]
         /\ SetBy(G, f)[n] = <<e.eventId, IF f = "status" THEN NULL
                                          ELSE d.changedFields[f]>>
<1>1. /\ n \notin DOMAIN H /\ DOMAIN G = DOMAIN H \cup {n}
      /\ \A k \in DOMAIN H : G[k] = H[k]
      /\ G[n].event = e /\ G[n].decision = d
  BY DEF Grown
<1>2. /\ SettersIn(G, o, f) = IF e.orderId = o /\ d.changedFields[f] # NULL
                              THEN SettersIn(H, o, f) \cup {n} ELSE SettersIn(H, o, f)
      /\ SettersIn(H, o, f) \subseteq DOMAIN H
  BY <1>1 DEF SettersIn
<1>3. /\ \A k \in DOMAIN H : SetBy(G, f)[k] = SetBy(H, f)[k]
      /\ SetBy(G, f)[n] = <<e.eventId, IF f = "status" THEN NULL
                                       ELSE d.changedFields[f]>>
  BY <1>1 DEF SetBy
<1> QED
  BY <1>2, <1>3

\* A decision joins those that speak of a field exactly if it speaks of it.
LEMMA SpeakersGrow ==
  ASSUME NEW H, NEW G, NEW n, NEW e, NEW d, Grown(H, G, n, e, d), NEW o, NEW f
  PROVE  /\ SpeakersIn(G, o, f) = IF e.orderId = o /\ Evaluated(d) /\ Speaks(e, d, f)
                                  THEN SpeakersIn(H, o, f) \cup {n} ELSE SpeakersIn(H, o, f)
         /\ SpeakersIn(H, o, f) \subseteq DOMAIN H
         /\ \A k \in SpeakersIn(H, o, f) : SaidBy(G, f)[k] = SaidBy(H, f)[k]
         /\ SaidBy(G, f)[n] = ReadOrderUpdateChanges(e.payload)[f]
<1>1. /\ n \notin DOMAIN H /\ DOMAIN G = DOMAIN H \cup {n}
      /\ \A k \in DOMAIN H : G[k] = H[k]
      /\ G[n].event = e /\ G[n].decision = d
  BY DEF Grown
<1>2. /\ SpeakersIn(G, o, f) = IF e.orderId = o /\ Evaluated(d) /\ Speaks(e, d, f)
                               THEN SpeakersIn(H, o, f) \cup {n} ELSE SpeakersIn(H, o, f)
      /\ SpeakersIn(H, o, f) \subseteq DOMAIN H
  BY <1>1 DEF SpeakersIn
<1>3. /\ \A k \in DOMAIN H : SaidBy(G, f)[k] = SaidBy(H, f)[k]
      /\ SaidBy(G, f)[n] = ReadOrderUpdateChanges(e.payload)[f]
  BY <1>1 DEF SaidBy
<1> QED
  BY <1>2, <1>3

\* A decision about another order, or one that asked no order.
LEMMA ForeignDecision ==
  ASSUME NEW H, NEW G, NEW n, NEW e, NEW d, Grown(H, G, n, e, d),
         NEW o, NEW f \in VersionedFields, NEW row, NEW version,
         e.orderId # o \/ (~Evaluated(d) /\ d.changedFields = NoChanges)
  PROVE  /\ FieldSet(H, o, f, row, version) => FieldSet(G, o, f, row, version)
         /\ FieldSaid(H, o, f, row, version) => FieldSaid(G, o, f, row, version)
<1>1. NoChanges[f] = NULL
  BY DEF VersionedFields, NoChanges
<1>2. /\ SettersIn(G, o, f) = SettersIn(H, o, f)
      /\ SettersIn(H, o, f) \subseteq DOMAIN H
      /\ \A k \in SettersIn(H, o, f) : SetBy(G, f)[k] = SetBy(H, f)[k]
  BY <1>1, SettersGrow
<1>3. /\ SpeakersIn(G, o, f) = SpeakersIn(H, o, f)
      /\ SpeakersIn(H, o, f) \subseteq DOMAIN H
      /\ \A k \in SpeakersIn(H, o, f) : SaidBy(G, f)[k] = SaidBy(H, f)[k]
  BY SpeakersGrow
<1>4. FieldSet(H, o, f, row, version) => FieldSet(G, o, f, row, version)
  BY <1>2, TellsStays DEF FieldSet
<1>5. FieldSaid(H, o, f, row, version) => FieldSaid(G, o, f, row, version)
  BY <1>3, TellsStays DEF FieldSaid
<1> QED
  BY <1>4, <1>5

\* A decision of the order itself.
LEMMA OwnDecisionSets ==
  ASSUME NEW H, NEW G, NEW n, NEW e \in Event, NEW d, Grown(H, G, n, e, d), Sound(H),
         NEW f \in VersionedFields, NEW row \in Order, NEW v \in Versions, NEW out,
         Refused(row, v, out) \/ TakesEffect(row, v, e, out),
         Missing(row) => v = NoVersions, d.changedFields = out.changedFields,
         FieldSet(H, e.orderId, f, row, v[f])
  PROVE  FieldSet(G, e.orderId, f, out.order, out.versions[f])
<1>0. PICK o : o = e.orderId
  OBVIOUS
<1> DEFINE ks == SettersIn(H, o, f)
           contents == <<v[f].eventId, IF f = "status" THEN NULL ELSE row[f]>>
           new == <<out.versions[f].eventId, IF f = "status" THEN NULL ELSE out.order[f]>>
           set == out.changedFields[f] # NULL /\ CanApplyField(v, f, e)
<1>1. /\ out.versions[f] = IF set THEN [timestamp |-> e.timestamp, eventId |-> e.eventId]
                           ELSE v[f]
      /\ f # "status" => /\ out.order[f] = IF set THEN out.changedFields[f] ELSE row[f]
                         /\ out.changedFields[f] # NULL => set
  BY FieldOfOutcome
<1>2. Tells(H, ks, SetBy(H, f), <<NULL, NULL>>, v[f].timestamp, contents)
  BY <1>0 DEF FieldSet
<1>3. /\ SettersIn(G, o, f) = IF d.changedFields[f] # NULL THEN ks \cup {n} ELSE ks
      /\ ks \subseteq DOMAIN H
      /\ \A k \in ks : SetBy(G, f)[k] = SetBy(H, f)[k]
      /\ SetBy(G, f)[n] = <<e.eventId, IF f = "status" THEN NULL
                                       ELSE out.changedFields[f]>>
  <2>1. /\ SettersIn(G, o, f) = IF e.orderId = o /\ d.changedFields[f] # NULL
                                THEN SettersIn(H, o, f) \cup {n} ELSE SettersIn(H, o, f)
        /\ SettersIn(H, o, f) \subseteq DOMAIN H
        /\ \A k \in SettersIn(H, o, f) : SetBy(G, f)[k] = SetBy(H, f)[k]
        /\ SetBy(G, f)[n] = <<e.eventId, IF f = "status" THEN NULL
                                         ELSE d.changedFields[f]>>
    BY SettersGrow
  <2> QED
    BY <1>0, <2>1
<1>4. Timed(H, ks) /\ e.timestamp \in Int
  BY SoundTimes DEF Event
<1>5. set => /\ out.versions[f].timestamp = e.timestamp
             /\ new = SetBy(G, f)[n]
  BY <1>1, <1>3
<1>6. ~set => out.versions[f].timestamp = v[f].timestamp /\ new = contents
  BY <1>1
<1>7. CASE out.changedFields[f] = NULL
  <2>1. ~set
    BY <1>7
  <2> HIDE DEF ks, contents, new, set
  <2>2. Tells(G, ks, SetBy(G, f), <<NULL, NULL>>, v[f].timestamp, contents)
    BY <1>2, <1>3, TellsStays
  <2>3. Tells(G, SettersIn(G, o, f), SetBy(G, f), <<NULL, NULL>>,
              out.versions[f].timestamp, new)
    BY <1>3, <1>6, <1>7, <2>1, <2>2
  <2> QED
    BY <1>0, <2>3 DEF FieldSet, new
<1>8. CASE out.changedFields[f] # NULL
  <2>1. set <=> v[f].timestamp = NULL \/ e.timestamp > v[f].timestamp
    BY <1>8 DEF CanApplyField
  <2> HIDE DEF ks, contents, new, set
  <2>2. IF v[f].timestamp = NULL \/ e.timestamp > v[f].timestamp
        THEN out.versions[f].timestamp = e.timestamp /\ new = SetBy(G, f)[n]
        ELSE out.versions[f].timestamp = v[f].timestamp /\ new = contents
    BY <1>5, <1>6, <2>1
  <2>3. Tells(G, ks \cup {n}, SetBy(G, f), <<NULL, NULL>>, out.versions[f].timestamp, new)
    BY <1>2, <1>3, <1>4, <2>2, TellsGrows
  <2>4. Tells(G, SettersIn(G, o, f), SetBy(G, f), <<NULL, NULL>>,
              out.versions[f].timestamp, new)
    BY <1>3, <1>8, <2>3
  <2> QED
    BY <1>0, <2>4 DEF FieldSet, new
<1> QED
  BY <1>7, <1>8

\* After the decision about an order its row and versions hold what the newest event
\* said.
LEMMA OwnDecisionSays ==
  ASSUME NEW H, NEW G, NEW n, NEW e \in Event, NEW d, Grown(H, G, n, e, d), Sound(H),
         NEW f \in SetLike, NEW row \in Order, NEW v \in Versions, NEW out,
         Refused(row, v, out) \/ TakesEffect(row, v, e, out), Merges(row, v, e, out, f),
         Missing(row) => v = NoVersions, Evaluated(d), d.reasonCode = out.reasonCode,
         FieldSaid(H, e.orderId, f, row, v[f])
  PROVE  FieldSaid(G, e.orderId, f, out.order, out.versions[f])
<1>0. PICK o : o = e.orderId
  OBVIOUS
<1> DEFINE ks == SpeakersIn(H, o, f)
           said == ReadOrderUpdateChanges(e.payload)[f]
           set == out.changedFields[f] # NULL /\ CanApplyField(v, f, e)
<1>1. f \in VersionedFields /\ f # "status"
  BY DEF SetLike, VersionedFields
<1>2. /\ out.versions[f] = IF set THEN [timestamp |-> e.timestamp, eventId |-> e.eventId]
                           ELSE v[f]
      /\ out.order[f] = IF set THEN out.changedFields[f] ELSE row[f]
  BY <1>1, FieldOfOutcome
<1>3. Speaks(e, d, f) <=> Speaks(e, out, f)
  BY DEF Speaks
<1>4. Tells(H, ks, SaidBy(H, f), NULL, v[f].timestamp, row[f])
  BY <1>0 DEF FieldSaid
<1>5. /\ SpeakersIn(G, o, f) = IF Speaks(e, out, f) THEN ks \cup {n} ELSE ks
      /\ ks \subseteq DOMAIN H
      /\ \A k \in ks : SaidBy(G, f)[k] = SaidBy(H, f)[k]
      /\ SaidBy(G, f)[n] = said
  <2>1. /\ SpeakersIn(G, o, f) = IF e.orderId = o /\ Evaluated(d) /\ Speaks(e, d, f)
                                 THEN SpeakersIn(H, o, f) \cup {n} ELSE SpeakersIn(H, o, f)
        /\ SpeakersIn(H, o, f) \subseteq DOMAIN H
        /\ \A k \in SpeakersIn(H, o, f) : SaidBy(G, f)[k] = SaidBy(H, f)[k]
        /\ SaidBy(G, f)[n] = ReadOrderUpdateChanges(e.payload)[f]
    BY SpeakersGrow
  <2> QED
    BY <1>0, <1>3, <2>1
<1>6. Timed(H, ks) /\ e.timestamp \in Int
  BY <1>1, SoundTimes DEF Event
<1>7. set <=> Speaks(e, out, f) /\ CanApplyField(v, f, e)
  <2>1. Missing(row) => CanApplyField(v, f, e)
    BY <1>1 DEF CanApplyField, NoVersions
  <2>2. Speaks(e, out, f) => said # NULL
    BY DEF Speaks
  <2> QED
    BY <2>1, <2>2 DEF Merges
<1>8. set => out.changedFields[f] = said
  BY DEF Merges
<1>9. CASE ~Speaks(e, out, f)
  <2> HIDE DEF ks, said, set
  <2>1. Tells(G, ks, SaidBy(G, f), NULL, v[f].timestamp, row[f])
    BY <1>4, <1>5, TellsStays
  <2> QED
    BY <1>0, <1>2, <1>5, <1>7, <1>9, <2>1 DEF FieldSaid
<1>10. CASE Speaks(e, out, f)
  <2>1. set <=> v[f].timestamp = NULL \/ e.timestamp > v[f].timestamp
    BY <1>7, <1>10 DEF CanApplyField
  <2> HIDE DEF ks, said, set
  <2>2. IF v[f].timestamp = NULL \/ e.timestamp > v[f].timestamp
        THEN out.versions[f].timestamp = e.timestamp /\ out.order[f] = SaidBy(G, f)[n]
        ELSE out.versions[f].timestamp = v[f].timestamp /\ out.order[f] = row[f]
    BY <1>2, <1>5, <1>8, <2>1
  <2>3. Tells(G, ks \cup {n}, SaidBy(G, f), NULL, out.versions[f].timestamp, out.order[f])
    BY <1>4, <1>5, <1>6, <2>2, TellsGrows
  <2> QED
    BY <1>0, <1>5, <1>10, <2>3 DEF FieldSaid
<1> QED
  BY <1>9, <1>10

-----------------------------------------------------------------------------
\* The engine.

\* The audit log, each decision with the item it is about.
History ==
  [k \in DOMAIN decisions |-> [event |-> RawOf(decisions[k]), decision |-> decisions[k]]]

\* An order that does not exist has no versions.
MissingUnversioned == \A o \in OrderIds : Missing(orders[o]) => versions[o] = NoVersions

FieldsSet ==
  \A o \in OrderIds : \A f \in VersionedFields :
    FieldSet(History, o, f, orders[o], versions[o][f])

FieldsSaid ==
  \A o \in OrderIds : \A f \in SetLike :
    FieldSaid(History, o, f, orders[o], versions[o][f])

\* What the fields of the orders owe to the log.  The version of a set-like field
\* is part of it: it tells which of two events a later one has to beat.
MergeInv ==
  /\ DeliveryInv
  /\ Sound(History) /\ MissingUnversioned
  /\ FieldsSet /\ FieldsSaid

LEMMA InitMergeInv == Init => MergeInv
<1> SUFFICES ASSUME Init PROVE MergeInv
  OBVIOUS
<1>1. DeliveryInv
  BY InitDeliveryInv
<1>2. DOMAIN decisions = {}
  BY DEF Init
<1>3. DOMAIN History = {}
  BY <1>2 DEF History
<1>4. Sound(History)
  BY <1>3 DEF Sound
<1>5. MissingUnversioned
  BY DEF Init, MissingUnversioned
<1>6. ASSUME NEW o \in OrderIds, NEW f \in VersionedFields
      PROVE  /\ versions[o][f].timestamp = NULL /\ versions[o][f].eventId = NULL
             /\ f # "status" => orders[o][f] = NULL
  BY DEF Init, NoVersions, NoOrder, VersionedFields
<1>7. FieldsSet
  <2>1. \A o, f : SettersIn(History, o, f) = {}
    BY <1>3 DEF SettersIn
  <2> QED
    BY <1>6, <2>1 DEF FieldsSet, FieldSet, Tells
<1>8. FieldsSaid
  <2>1. \A o, f : SpeakersIn(History, o, f) = {}
    BY <1>3 DEF SpeakersIn
  <2>2. \A f \in SetLike : f \in VersionedFields /\ f # "status"
    BY DEF SetLike, VersionedFields
  <2> QED
    BY <1>6, <2>1, <2>2 DEF FieldsSaid, FieldSaid, Tells
<1> QED
  BY <1>1, <1>4, <1>5, <1>7, <1>8 DEF MergeInv

\* Items are never altered, so the history of decided events only grows.
LEMMA HistoryStays ==
  ASSUME IInv, OnlyRetriesWait, [Next]_vars, UNCHANGED decisions
  PROVE  History' = History
<1>1. HistoryKept
  BY StepKeepsHistory
<1>2. \A k \in DOMAIN decisions : inbox'[decisions[k].rawIncomingEventId].raw = RawOf(decisions[k])
  BY <1>1 DEF HistoryKept, IInv, DoneIffDecided, RawOf
<1> QED
  BY <1>2 DEF History, RawOf

\* A transaction that decides adds its event and decision to the history.
LEMMA HistoryGrows ==
  ASSUME IInv, OnlyRetriesWait, [Next]_vars,
         NEW i \in DOMAIN inbox, NEW d \in Decision, NEW r \in Row, DecidedBy(i, d, r)
  PROVE  Grown(History, History', Len(decisions) + 1, inbox[i].raw, d)
<1>1. PICK n : n = Len(decisions) + 1
  OBVIOUS
<1>2. PICK e : e = inbox[i].raw
  OBVIOUS
<1>3. HistoryKept
  BY StepKeepsHistory
<1>4. /\ n \in Nat /\ DOMAIN decisions \subseteq Nat /\ \A k \in DOMAIN decisions : k < n
      /\ DOMAIN decisions' = DOMAIN decisions \cup {n}
      /\ \A k \in DOMAIN decisions : decisions'[k] = decisions[k]
      /\ decisions'[n] = d /\ d.rawIncomingEventId = i
  BY <1>1 DEF DecidedBy, Logged
<1>5. inbox'[i].raw = e
  BY <1>2, <1>3 DEF HistoryKept
<1>6. \A k \in DOMAIN decisions : inbox'[decisions[k].rawIncomingEventId].raw = RawOf(decisions[k])
  BY <1>3 DEF HistoryKept, IInv, DoneIffDecided, RawOf
<1>7. History' = [k \in DOMAIN decisions' |->
                    [event |-> inbox'[decisions'[k].rawIncomingEventId].raw,
                     decision |-> decisions'[k]]]
  BY DEF History, RawOf
<1>8. /\ DOMAIN History = DOMAIN decisions
      /\ \A k \in DOMAIN decisions :
           History[k] = [event |-> RawOf(decisions[k]), decision |-> decisions[k]]
  BY DEF History
<1>9. Grown(History, History', n, e, d)
  BY <1>4, <1>5, <1>6, <1>7, <1>8 DEF Grown
<1> QED
  BY <1>1, <1>2, <1>9

\* No other step changes orders, versions or history.
LEMMA MergeSteps ==
  ASSUME IInv, OnlyRetriesWait, [Next]_vars
  PROVE  \/ UNCHANGED <<orders, versions>> /\ History' = History
         \/ \E i \in DOMAIN inbox, d \in Decision, r \in Row : DecidedBy(i, d, r)
<1>1. \/ UNCHANGED <<orders, versions, decisions>>
      \/ \E i \in DOMAIN inbox, d \in Decision, r \in Row : DecidedBy(i, d, r)
  BY DatabaseSteps DEF database, RowsAdded, DelayPassed, PutOff
<1> QED
  BY <1>1, HistoryStays

\* What asking the order does to it.
LEMMA OrderAnswers ==
  ASSUME IInv, NEW i \in DOMAIN inbox, NEW d \in Decision, NEW r \in Row,
         OrderAsked(i, d, r)
  PROVE  LET e == inbox[i].raw
             o == orders[e.orderId]
             v == versions[e.orderId]
             out == OutcomeOf(i)
         IN  /\ e \in Event /\ e.orderId \in OrderIds /\ o \in Order /\ v \in Versions
             /\ Refused(o, v, out) \/ TakesEffect(o, v, e, out)
             /\ \A f \in SetLike : Merges(o, v, e, out, f)
             /\ Evaluated(d)
             /\ d.changedFields = out.changedFields /\ d.reasonCode = out.reasonCode
             /\ orders'[e.orderId] = out.order /\ versions'[e.orderId] = out.versions
             /\ \A p \in OrderIds \ {e.orderId} :
                  orders'[p] = orders[p] /\ versions'[p] = versions[p]
<1> DEFINE e == inbox[i].raw
           out == OutcomeOf(i)
<1>1. TypeOK /\ LedgerConsistent /\ Valid(i)
  BY DEF IInv, OrderAsked, Claims
<1>2. /\ e \in Event /\ orders[e.orderId] \in Order /\ versions[e.orderId] \in Versions
      /\ \/ Refused(orders[e.orderId], versions[e.orderId], out)
         \/ TakesEffect(orders[e.orderId], versions[e.orderId], e, out)
  BY <1>1, OutcomeOfRecords
<1>3. e.orderId \in OrderIds
  BY <1>2 DEF Event
<1>4. out = HandleEvent(orders[e.orderId], versions[e.orderId], e)
  BY DEF OutcomeOf
<1>5. d = OutcomeDecision(i, out) /\ Evaluated(d)
  BY DEF OrderAsked
<1>6. d.changedFields = out.changedFields /\ d.reasonCode = out.reasonCode
  BY <1>5 DEF OutcomeDecision
<1>7. /\ orders' = [orders EXCEPT ![e.orderId] = out.order]
      /\ versions' = [versions EXCEPT ![e.orderId] = out.versions]
      /\ DOMAIN orders = OrderIds /\ DOMAIN versions = OrderIds
  BY <1>1 DEF OrderAsked, TypeOK
<1> HIDE DEF e, out
<1>8. \A f \in SetLike : Merges(orders[e.orderId], versions[e.orderId], e, out, f)
  BY <1>2, <1>4, HandleEventMerges
<1>9. /\ orders'[e.orderId] = out.order /\ versions'[e.orderId] = out.versions
      /\ \A p \in OrderIds \ {e.orderId} :
           orders'[p] = orders[p] /\ versions'[p] = versions[p]
  BY <1>3, <1>7
<1> QED
  BY <1>2, <1>3, <1>5, <1>6, <1>8, <1>9 DEF e, out

-----------------------------------------------------------------------------
\* The invariant is inductive: asking an order may add its decision to those the
\* field tells of, and every other step adds none.
THEOREM MergeStep == MergeInv /\ [Next]_vars => MergeInv'
<1> SUFFICES ASSUME MergeInv, [Next]_vars PROVE MergeInv'
  OBVIOUS
<1>1. DeliveryInv'
  BY DeliveryStep DEF MergeInv
<1>2. DeliveryInv /\ IInv /\ OnlyRetriesWait
  BY DEF MergeInv, DeliveryInv
<1>3. CASE UNCHANGED <<orders, versions>> /\ History' = History
  <2>1. FieldsSet' /\ FieldsSaid'
    BY <1>3 DEF MergeInv, FieldsSet, FieldsSaid
  <2>2. Sound(History)' /\ MissingUnversioned'
    BY <1>3 DEF MergeInv, Sound, MissingUnversioned
  <2> QED
    BY <1>1, <2>1, <2>2 DEF MergeInv
<1>4. ASSUME NEW i \in DOMAIN inbox, NEW d \in Decision, NEW r \in Row, DecidedBy(i, d, r)
      PROVE  MergeInv'
  <2>1. PICK H : H = History
    OBVIOUS
  <2>2. PICK G : G = History'
    OBVIOUS
  <2>3. PICK n : n = Len(decisions) + 1
    OBVIOUS
  <2>4. PICK e : e = inbox[i].raw
    OBVIOUS
  <2>5. Grown(H, G, n, e, d)
    BY <1>2, <1>4, <2>1, <2>2, <2>3, <2>4, HistoryGrows
  <2>6. Sound(H)
    BY <2>1 DEF MergeInv
  <2>7. ASSUME NEW o \in OrderIds
        PROVE  /\ Missing(orders[o]) => versions[o] = NoVersions
               /\ \A f \in VersionedFields : FieldSet(H, o, f, orders[o], versions[o][f])
               /\ \A f \in SetLike : FieldSaid(H, o, f, orders[o], versions[o][f])
    BY <2>1 DEF MergeInv, MissingUnversioned, FieldsSet, FieldsSaid
  <2>8. SetLike \subseteq VersionedFields
    BY DEF SetLike, VersionedFields
  <2>9. CASE OrderAsked(i, d, r)
    <3>1. PICK out : out = OutcomeOf(i)
      OBVIOUS
    <3>2. PICK row : row = orders[e.orderId]
      OBVIOUS
    <3>3. PICK v : v = versions[e.orderId]
      OBVIOUS
    <3>4. /\ e \in Event /\ e.orderId \in OrderIds /\ row \in Order /\ v \in Versions
          /\ Refused(row, v, out) \/ TakesEffect(row, v, e, out)
          /\ \A f \in SetLike : Merges(row, v, e, out, f)
          /\ Evaluated(d)
          /\ d.changedFields = out.changedFields /\ d.reasonCode = out.reasonCode
          /\ orders'[e.orderId] = out.order /\ versions'[e.orderId] = out.versions
          /\ \A p \in OrderIds \ {e.orderId} :
               orders'[p] = orders[p] /\ versions'[p] = versions[p]
      BY <1>2, <2>4, <2>9, <3>1, <3>2, <3>3, OrderAnswers
    <3>5. /\ Missing(row) => v = NoVersions
          /\ \A f \in VersionedFields : FieldSet(H, e.orderId, f, row, v[f])
          /\ \A f \in SetLike : FieldSaid(H, e.orderId, f, row, v[f])
      BY <2>7, <3>2, <3>3, <3>4
    <3>6. Sound(G)
      BY <2>5, <2>6, <3>4 DEF Sound, Grown
    <3>7. ASSUME NEW p \in OrderIds
          PROVE  Missing(orders'[p]) => versions'[p] = NoVersions
      <4>1. Missing(out.order) => out.versions = NoVersions
        BY <3>4, <3>5 DEF Refused, TakesEffect
      <4> QED
        BY <2>7, <3>4, <4>1
    <3>8. ASSUME NEW p \in OrderIds, NEW f \in VersionedFields
          PROVE  FieldSet(G, p, f, orders'[p], versions'[p][f])
      <4>1. CASE p = e.orderId
        <5>1. FieldSet(H, e.orderId, f, row, v[f]) /\ (Missing(row) => v = NoVersions)
          BY <3>5
        <5>2. /\ e \in Event /\ row \in Order /\ v \in Versions
              /\ Refused(row, v, out) \/ TakesEffect(row, v, e, out)
              /\ d.changedFields = out.changedFields
          BY <3>4
        <5>3. FieldSet(G, e.orderId, f, out.order, out.versions[f])
          BY <2>5, <2>6, <5>1, <5>2, OwnDecisionSets
        <5> QED
          BY <3>4, <4>1, <5>3
      <4>2. CASE p # e.orderId
        BY <2>5, <2>7, <3>4, <4>2, ForeignDecision
      <4> QED
        BY <4>1, <4>2
    <3>9. ASSUME NEW p \in OrderIds, NEW f \in SetLike
          PROVE  FieldSaid(G, p, f, orders'[p], versions'[p][f])
      <4>1. CASE p = e.orderId
        <5>1. FieldSaid(G, e.orderId, f, out.order, out.versions[f])
          BY <2>5, <2>6, <3>4, <3>5, OwnDecisionSays
        <5> QED
          BY <3>4, <4>1, <5>1
      <4>2. CASE p # e.orderId
        BY <2>5, <2>7, <2>8, <3>4, <4>2, ForeignDecision
      <4> QED
        BY <4>1, <4>2
    <3> QED
      BY <1>1, <2>2, <3>6, <3>7, <3>8, <3>9
         DEF MergeInv, MissingUnversioned, FieldsSet, FieldsSaid
  <2>10. CASE /\ GivenUp(i, d, r) \/ FoundInvalid(i, d, r) \/ FoundDuplicate(i, d, r)
              /\ d.changedFields = NoChanges
              /\ UNCHANGED <<keys, orders, versions>>
    <3>1. ~Evaluated(d)
      BY <2>10 DEF GivenUp, FoundInvalid, FoundDuplicate, Evaluated, Applied
    <3>2. Sound(G)
      BY <2>5, <2>6, <2>10, <3>1 DEF Sound, Grown
    <3>3. ASSUME NEW p \in OrderIds, NEW f \in VersionedFields
          PROVE  /\ FieldSet(G, p, f, orders'[p], versions'[p][f])
                 /\ f \in SetLike => FieldSaid(G, p, f, orders'[p], versions'[p][f])
      BY <2>5, <2>7, <2>10, <3>1, ForeignDecision
    <3> QED
      BY <1>1, <2>2, <2>7, <2>8, <2>10, <3>2, <3>3
         DEF MergeInv, MissingUnversioned, FieldsSet, FieldsSaid
  <2> QED
    BY <1>4, <2>9, <2>10 DEF DecidedBy
<1> QED
  BY <1>2, <1>3, <1>4, MergeSteps

\* In every state the fields of the orders agree with the log.
THEOREM MergeInvariant == Spec => []MergeInv
  BY InitMergeInv, MergeStep, PTL DEF Spec

\* A field version names the newest event that changed the field, in whatever order
\* the events arrived, and the amount and currency of an order are the values that
\* event gave (the field version merge of the handlers).
THEOREM NewestEventWins == Spec => []FreshestWins
<1>1. ASSUME MergeInv PROVE FreshestWins
  <2>1. PICK H : H = History
    OBVIOUS
  <2>2. /\ DOMAIN H = DOMAIN decisions
        /\ \A k \in DOMAIN H : H[k].event = RawOf(decisions[k]) /\ H[k].decision = decisions[k]
    BY <2>1 DEF History
  <2>3. ASSUME NEW o \in OrderIds, NEW f \in VersionedFields
        PROVE  IF Setters(o, f) = {}
               THEN versions[o][f] = NoVersions[f]
               ELSE \E k \in Setters(o, f) :
                      /\ Freshest(k, Setters(o, f))
                      /\ versions[o][f].timestamp = RawOf(decisions[k]).timestamp
                      /\ versions[o][f].eventId = RawOf(decisions[k]).eventId
                      /\ f # "status" => orders[o][f] = decisions[k].changedFields[f]
    <3>1. SettersIn(H, o, f) = Setters(o, f) /\ Setters(o, f) \subseteq DOMAIN H
      BY <2>2 DEF SettersIn, Setters
    <3>2. \A k \in Setters(o, f) :
            /\ Newest(H, k, Setters(o, f)) => Freshest(k, Setters(o, f))
            /\ SetBy(H, f)[k] = <<RawOf(decisions[k]).eventId,
                                  IF f = "status" THEN NULL
                                  ELSE decisions[k].changedFields[f]>>
      BY <2>2, <3>1 DEF Newest, Freshest, SetBy
    <3>3. Tells(H, Setters(o, f), SetBy(H, f), <<NULL, NULL>>, versions[o][f].timestamp,
                <<versions[o][f].eventId, IF f = "status" THEN NULL ELSE orders[o][f]>>)
      BY <1>1, <2>1, <3>1 DEF MergeInv, FieldsSet, FieldSet
    <3>4. CASE Setters(o, f) = {}
      <4>1. versions[o][f] \in Version
        BY <1>1 DEF MergeInv, DeliveryInv, IInv, TypeOK, Versions
      <4>2. versions[o][f].timestamp = NULL /\ versions[o][f].eventId = NULL
        BY <3>3, <3>4 DEF Tells
      <4> QED
        BY <3>4, <4>1, <4>2 DEF Version, NoVersions
    <3>5. CASE Setters(o, f) # {}
      <4>1. PICK k \in Setters(o, f) :
              /\ Newest(H, k, Setters(o, f))
              /\ versions[o][f].timestamp = H[k].event.timestamp
              /\ <<versions[o][f].eventId, IF f = "status" THEN NULL ELSE orders[o][f]>>
                   = SetBy(H, f)[k]
        BY <3>3, <3>5 DEF Tells
      <4>2. k \in DOMAIN H
        BY <3>1
      <4> QED
        BY <2>2, <3>2, <3>5, <4>1, <4>2
    <3> QED
      BY <3>4, <3>5
  <2> QED
    BY <2>3 DEF FreshestWins
<1> QED
  BY <1>1, MergeInvariant, PTL

\* The amount and the currency of an order converge: they are what the newest of all
\* events that named them says, applied, applied in part or refused.
THEOREM UpdatesMerge == Spec => []UpdatesConverge
<1>1. ASSUME MergeInv PROVE UpdatesConverge
  <2>1. PICK H : H = History
    OBVIOUS
  <2>2. /\ DOMAIN H = DOMAIN decisions
        /\ \A k \in DOMAIN H : H[k].event = RawOf(decisions[k]) /\ H[k].decision = decisions[k]
    BY <2>1 DEF History
  <2>3. ASSUME NEW o \in OrderIds, NEW f \in SetLike
        PROVE  IF Speakers(o, f) = {}
               THEN orders[o][f] = NULL
               ELSE \E k \in Speakers(o, f) :
                      Freshest(k, Speakers(o, f)) /\ orders[o][f] = Says(decisions[k], f)
    <3>1. SpeakersIn(H, o, f) = Speakers(o, f) /\ Speakers(o, f) \subseteq DOMAIN H
      BY <2>2 DEF SpeakersIn, Speakers, Speaks, Says
    <3>2. \A k \in Speakers(o, f) :
            /\ Newest(H, k, Speakers(o, f)) => Freshest(k, Speakers(o, f))
            /\ SaidBy(H, f)[k] = Says(decisions[k], f)
      BY <2>2, <3>1 DEF Newest, Freshest, SaidBy, Says
    <3>3. Tells(H, Speakers(o, f), SaidBy(H, f), NULL, versions[o][f].timestamp,
                orders[o][f])
      BY <1>1, <2>1, <3>1 DEF MergeInv, FieldsSaid, FieldSaid
    <3> QED
      BY <3>2, <3>3 DEF Tells
  <2> QED
    BY <2>3 DEF UpdatesConverge, SetLike
<1> QED
  BY <1>1, MergeInvariant, PTL

-----------------------------------------------------------------------------
\* Induction and recursion up to a bound.

\* A set of natural numbers has a least element.
LEMMA LeastNumber ==
  ASSUME NEW T \in SUBSET Nat, T # {}
  PROVE  \E x \in T : \A y \in T : x <= y
<1> DEFINE R == {ss \in Nat \X Nat : ss[1] < ss[2]}
<1>1. R = OpToRel(<, Nat)
  BY DEF OpToRel
<1>2. IsWellFoundedOn(R, Nat)
  BY <1>1, NatLessThanWellFounded, Zenon
<1>3. \A x, y \in T : y < x => <<y, x>> \in R
  OBVIOUS
<1> HIDE DEF R
<1>4. PICK x \in T : \A y \in T : <<y, x>> \notin R
  BY <1>2, WFMin
<1>5. ASSUME NEW y \in T PROVE x <= y
  <2>1. ~(y < x)
    BY <1>3, <1>4
  <2>2. x \in Nat /\ y \in Nat
    OBVIOUS
  <2> QED
    BY <2>1, <2>2
<1> QED
  BY <1>5

\* A set that holds 0 and is closed under successor up to n holds 0..n.
LEMMA SetInduction ==
  ASSUME NEW n \in Nat, NEW T \in SUBSET Nat, 0 \in T,
         \A k \in 0..(n - 1) : k \in T => k + 1 \in T
  PROVE  0..n \subseteq T
<1> DEFINE B == {k \in 0..n : k \notin T}
<1> SUFFICES ASSUME B # {} PROVE FALSE
  OBVIOUS
<1>1. B \in SUBSET Nat
  OBVIOUS
<1>2. PICK x \in B : \A y \in B : x <= y
  BY <1>1, LeastNumber
<1>3. x # 0 /\ x \in 0..n
  BY <1>2
<1>4. x - 1 \in 0..(n - 1) /\ x - 1 \notin B
  BY <1>2, <1>3
<1>5. x - 1 \in T
  BY <1>4
<1>6. (x - 1) + 1 \in T
  BY <1>4, <1>5
<1> QED
  BY <1>2, <1>3, <1>6

\* f starts with a and follows the steps S up to n.
Follows(f, n, a, S) ==
  f = [k \in 0..n |-> IF k = 0 THEN a ELSE S[k][f[k - 1]]]

\* Steps of a set A can be followed.
LEMMA StepsFollowed ==
  ASSUME NEW n \in Nat, NEW A, NEW a \in A, NEW S \in [1..n -> [A -> A]]
  PROVE  \E f \in [0..n -> A] : Follows(f, n, a, S)
<1> DEFINE T == {m \in 0..n : \E f \in [0..m -> A] : Follows(f, m, a, S)}
<1>1. 0 \in T
  <2>1. PICK f : f = [k \in 0..0 |-> a]
    OBVIOUS
  <2>2. f \in [0..0 -> A] /\ Follows(f, 0, a, S)
    BY <2>1 DEF Follows
  <2> QED
    BY <2>2
<1>2. ASSUME NEW m \in 0..(n - 1), m \in T PROVE m + 1 \in T
  <2>1. PICK f \in [0..m -> A] : Follows(f, m, a, S)
    BY <1>2
  <2>2. m \in Nat /\ m + 1 \in 1..n
    OBVIOUS
  <2>3. PICK y : y = S[m + 1][f[m]]
    OBVIOUS
  <2>4. S[m + 1] \in [A -> A] /\ f[m] \in A
    BY <2>2
  <2>5. y \in A
    BY <2>3, <2>4
  <2>6. PICK g : g = [k \in 0..(m + 1) |-> IF k = m + 1 THEN y ELSE f[k]]
    OBVIOUS
  <2>7. g \in [0..(m + 1) -> A]
    BY <2>2, <2>5, <2>6
  <2>8. ASSUME NEW k \in 0..(m + 1)
        PROVE  g[k] = IF k = 0 THEN a ELSE S[k][g[k - 1]]
    <3>1. CASE k = m + 1
      <4>1. k # 0 /\ m = k - 1 /\ m \in 0..(m + 1) /\ m # m + 1
        BY <2>2, <3>1
      <4>2. g[k] = y /\ g[k - 1] = f[m]
        BY <2>6, <3>1, <4>1
      <4> QED
        BY <2>3, <3>1, <4>1, <4>2
    <3>2. CASE k = 0
      <4>1. 0 \in 0..m /\ 0 # m + 1 /\ 0 \in 0..(m + 1)
        BY <2>2
      <4> QED
        BY <2>1, <2>6, <3>2, <4>1 DEF Follows
    <3>3. CASE k # 0 /\ k # m + 1
      <4>1. k \in 0..m /\ k - 1 \in 0..(m + 1) /\ k - 1 # m + 1
        BY <2>2, <3>3
      <4>2. g[k] = f[k] /\ g[k - 1] = f[k - 1]
        BY <2>6, <3>3, <4>1
      <4>3. f[k] = S[k][f[k - 1]]
        BY <2>1, <3>3, <4>1 DEF Follows
      <4> QED
        BY <3>3, <4>2, <4>3
    <3> QED
      BY <3>1, <3>2, <3>3
  <2>9. Follows(g, m + 1, a, S)
    BY <2>7, <2>8 DEF Follows
  <2> QED
    BY <2>2, <2>7, <2>9
<1>3. T \in SUBSET Nat
  OBVIOUS
<1> HIDE DEF T
<1>4. 0..n \subseteq T
  BY <1>1, <1>2, <1>3, SetInduction
<1>5. n \in T
  BY <1>4
<1> QED
  BY <1>5 DEF T

\* Two functions that begin alike and step alike agree.
LEMMA SameSteps ==
  ASSUME NEW n \in Nat, NEW f, NEW g, f[0] = g[0],
         \A k \in 1..n : f[k - 1] = g[k - 1] => f[k] = g[k]
  PROVE  \A k \in 0..n : f[k] = g[k]
<1> DEFINE T == {k \in 0..n : f[k] = g[k]}
<1>1. T \in SUBSET Nat /\ 0 \in T
  OBVIOUS
<1>2. ASSUME NEW k \in 0..(n - 1), k \in T PROVE k + 1 \in T
  <2>1. k + 1 \in 1..n /\ k + 1 \in 0..n /\ (k + 1) - 1 = k
    OBVIOUS
  <2>2. f[k] = g[k]
    BY <1>2
  <2>3. f[k + 1] = g[k + 1]
    BY <2>1, <2>2
  <2> QED
    BY <2>1, <2>3
<1> HIDE DEF T
<1>3. 0..n \subseteq T
  BY <1>1, <1>2, SetInduction
<1> QED
  BY <1>3 DEF T

-----------------------------------------------------------------------------
\* Replaying the log.

\* What decision k of the log makes of row x of order o.
Replayed(o, k, x) ==
  IF RawOf(decisions[k]).orderId = o THEN Patched(x, decisions[k].changedFields) ELSE x

\* A replay starts without the order and applies one decision after the other.
Replays(o) ==
  /\ ReplayedOrder(o, 0) = NoOrder
  /\ \A k \in DOMAIN decisions :
       ReplayedOrder(o, k) = Replayed(o, k, ReplayedOrder(o, k - 1))

\* What the log records of each decision.
LEMMA LogType ==
  ASSUME TypeOK
  PROVE  /\ Len(decisions) \in Nat /\ DOMAIN decisions = 1..Len(decisions)
         /\ \A k \in DOMAIN decisions :
              decisions[k] \in Decision /\ decisions[k].changedFields \in Changes
<1>1. decisions \in Seq(Decision)
  BY DEF TypeOK
<1>2. Len(decisions) \in Nat /\ DOMAIN decisions = 1..Len(decisions)
  BY <1>1, LenProperties
<1>3. \A k \in DOMAIN decisions : decisions[k] \in Decision
  BY <1>1, <1>2, ElementOfSeq
<1> QED
  BY <1>2, <1>3 DEF Decision

LogReplays == \A o : Replays(o)

\* Replaying is well defined: it takes one decision after the other.
LEMMA ReplayFollowsLog == IInv => LogReplays
<1> SUFFICES ASSUME IInv, NEW o PROVE Replays(o)
  BY DEF LogReplays
<1>1. PICK n : n = Len(decisions)
  OBVIOUS
<1>2. /\ n \in Nat /\ DOMAIN decisions = 1..n
      /\ \A k \in 1..n : decisions[k].changedFields \in Changes
  BY <1>1, LogType DEF IInv
<1>3. PICK S : S = [k \in 1..n |-> [x \in Order |-> Replayed(o, k, x)]]
  OBVIOUS
<1>4. S \in [1..n -> [Order -> Order]]
  <2>1. \A k \in 1..n : \A x \in Order : Replayed(o, k, x) \in Order
    BY <1>2, PatchedType DEF Replayed
  <2> QED
    BY <1>3, <2>1
<1>5. PICK f \in [0..n -> Order] : Follows(f, n, NoOrder, S)
  BY <1>2, <1>4, NoOrderType, StepsFollowed
<1>6. ASSUME NEW k \in 0..n
      PROVE  f[k] = IF k = 0 THEN NoOrder
                    ELSE IF RawOf(decisions[k]).orderId = o
                         THEN Patched(f[k - 1], decisions[k].changedFields)
                    ELSE f[k - 1]
  <2>1. CASE k = 0
    BY <1>5, <2>1 DEF Follows
  <2>2. CASE k # 0
    <3>1. k \in 1..n /\ k - 1 \in 0..n
      BY <1>2, <2>2
    <3>2. f[k] = S[k][f[k - 1]] /\ f[k - 1] \in Order
      BY <1>5, <2>2, <3>1 DEF Follows
    <3>3. f[k] = Replayed(o, k, f[k - 1])
      BY <1>3, <3>1, <3>2
    <3> QED
      BY <2>2, <3>3 DEF Replayed
  <2> QED
    BY <2>1, <2>2
<1>7. f = [k \in 0..n |->
             IF k = 0 THEN NoOrder
             ELSE IF RawOf(decisions[k]).orderId = o
                  THEN Patched(f[k - 1], decisions[k].changedFields)
             ELSE f[k - 1]]
  BY <1>6
<1>8. PICK row : /\ row = [k \in 0..n |->
                             IF k = 0 THEN NoOrder
                             ELSE IF RawOf(decisions[k]).orderId = o
                                  THEN Patched(row[k - 1], decisions[k].changedFields)
                             ELSE row[k - 1]]
                 /\ \A m : ReplayedOrder(o, m) = row[m]
  BY <1>1, <1>7 DEF ReplayedOrder
<1>9. 0 \in 0..n /\ \A k \in 1..n : k \in 0..n /\ k # 0
  BY <1>2
<1>10. row[0] = NoOrder
  BY <1>8, <1>9
<1>11. ASSUME NEW k \in 1..n PROVE row[k] = Replayed(o, k, row[k - 1])
  BY <1>8, <1>9 DEF Replayed
<1> QED
  BY <1>2, <1>8, <1>10, <1>11 DEF Replays

\* Every replayed prefix of the log is an order row.
LEMMA ReplayType ==
  ASSUME IInv, NEW o
  PROVE  \A k \in 0..Len(decisions) : ReplayedOrder(o, k) \in Order
<1>1. PICK n : n = Len(decisions)
  OBVIOUS
<1>2. /\ n \in Nat /\ DOMAIN decisions = 1..n
      /\ \A k \in 1..n : decisions[k].changedFields \in Changes
  BY <1>1, LogType DEF IInv
<1>3. Replays(o)
  BY ReplayFollowsLog DEF LogReplays
<1> DEFINE T == {k \in 0..n : ReplayedOrder(o, k) \in Order}
<1>4. T \in SUBSET Nat
  OBVIOUS
<1>5. 0 \in T
  BY <1>2, <1>3, NoOrderType DEF Replays
<1>6. ASSUME NEW k \in 0..(n - 1), k \in T PROVE k + 1 \in T
  <2>1. k + 1 \in 1..n /\ k + 1 \in 0..n /\ (k + 1) - 1 = k
    BY <1>2
  <2>2. ReplayedOrder(o, k + 1) = Replayed(o, k + 1, ReplayedOrder(o, k))
    BY <1>2, <1>3, <2>1 DEF Replays
  <2>3. ReplayedOrder(o, k + 1) \in Order
    BY <1>2, <1>6, <2>1, <2>2, PatchedType DEF Replayed
  <2> QED
    BY <2>1, <2>3
<1> HIDE DEF T
<1>7. 0..n \subseteq T
  BY <1>2, <1>4, <1>5, <1>6, SetInduction
<1> QED
  BY <1>1, <1>7 DEF T

\* Decisions are kept, so that every beginning of the log replays as before.
LEMMA ReplayKept ==
  ASSUME IInv, IInv', HistoryKept
  PROVE  \A o : \A k \in 0..Len(decisions) :
           ReplayedOrder(o, k)' = ReplayedOrder(o, k)
<1>1. LogReplays /\ LogReplays'
  <2>1. IInv' => LogReplays'
    BY ReplayFollowsLog, PTL
  <2> QED
    BY <2>1, ReplayFollowsLog
<1> SUFFICES ASSUME NEW o
             PROVE  \A k \in 0..Len(decisions) : ReplayedOrder(o, k)' = ReplayedOrder(o, k)
  OBVIOUS
<1>2. PICK n : n = Len(decisions)
  OBVIOUS
<1>3. n \in Nat /\ DOMAIN decisions = 1..n
  BY <1>2, LogType DEF IInv
<1>4. Replays(o) /\ Replays(o)'
  BY <1>1 DEF LogReplays
<1>5. ASSUME NEW k \in DOMAIN decisions
      PROVE  /\ RawOf(decisions[k])' = RawOf(decisions[k])
             /\ decisions'[k] = decisions[k] /\ k \in DOMAIN decisions'
  BY DEF HistoryKept, IInv, DoneIffDecided, RawOf
<1>6. PICK f : f = [k \in 0..n |-> ReplayedOrder(o, k)]
  OBVIOUS
<1>7. PICK g : g = [k \in 0..n |-> ReplayedOrder(o, k)']
  OBVIOUS
<1>8. f[0] = g[0]
  BY <1>3, <1>4, <1>6, <1>7 DEF Replays
<1>9. ASSUME NEW k \in 1..n, f[k - 1] = g[k - 1] PROVE f[k] = g[k]
  <2>1. k \in 0..n /\ k - 1 \in 0..n /\ k \in DOMAIN decisions
    BY <1>3
  <2>2. ReplayedOrder(o, k - 1)' = ReplayedOrder(o, k - 1)
    BY <1>6, <1>7, <1>9, <2>1
  <2>3. /\ ReplayedOrder(o, k) = Replayed(o, k, ReplayedOrder(o, k - 1))
        /\ ReplayedOrder(o, k)' = Replayed(o, k, ReplayedOrder(o, k - 1))'
    BY <1>4, <1>5, <2>1 DEF Replays
  <2>4. ReplayedOrder(o, k)' = ReplayedOrder(o, k)
    BY <1>5, <2>1, <2>2, <2>3 DEF Replayed
  <2> QED
    BY <1>6, <1>7, <2>1, <2>4
<1>10. \A k \in 1..n : f[k - 1] = g[k - 1] => f[k] = g[k]
  BY <1>9
<1>11. n \in Nat
  BY <1>3
<1>12. \A k \in 0..n : f[k] = g[k]
  BY <1>8, <1>10, <1>11, SameSteps
<1> QED
  BY <1>2, <1>6, <1>7, <1>12

\* Replaying the log after a decision patches the order of its delivery and leaves the
\* others where they were.
LEMMA DecisionReplayed ==
  ASSUME IInv, IInv', OnlyRetriesWait, [Next]_vars, NEW m, m = Len(decisions),
         NEW i \in DOMAIN inbox, NEW d \in Decision, NEW r \in Row, DecidedBy(i, d, r)
  PROVE  \A o :
           ReplayedOrder(o, m + 1)' =
             IF inbox[i].raw.orderId = o
             THEN Patched(ReplayedOrder(o, m), d.changedFields)
             ELSE ReplayedOrder(o, m)
<1> SUFFICES ASSUME NEW o
             PROVE  ReplayedOrder(o, m + 1)' =
                      IF inbox[i].raw.orderId = o
                      THEN Patched(ReplayedOrder(o, m), d.changedFields)
                      ELSE ReplayedOrder(o, m)
  OBVIOUS
<1>1. PICK e : e = inbox[i].raw
  OBVIOUS
<1>2. HistoryKept
  BY StepKeepsHistory
<1>3. /\ m \in Nat /\ m + 1 \in DOMAIN decisions' /\ decisions'[m + 1] = d
      /\ d.rawIncomingEventId = i /\ (m + 1) - 1 = m /\ m \in 0..m
  BY DEF DecidedBy, Logged
<1>4. inbox'[i].raw = e
  BY <1>1, <1>2 DEF HistoryKept
<1>5. Replays(o)'
  <2>1. IInv' => LogReplays'
    BY ReplayFollowsLog, PTL
  <2> QED
    BY <2>1 DEF LogReplays
<1>6. ReplayedOrder(o, m)' = ReplayedOrder(o, m)
  BY <1>2, <1>3, ReplayKept
<1>7. ReplayedOrder(o, m + 1)' = Replayed(o, m + 1, ReplayedOrder(o, m))'
  BY <1>3, <1>5 DEF Replays
<1>8. ReplayedOrder(o, m + 1)' =
        IF e.orderId = o THEN Patched(ReplayedOrder(o, m)', d.changedFields)
                         ELSE ReplayedOrder(o, m)'
  BY <1>3, <1>4, <1>7 DEF Replayed, RawOf
<1> QED
  BY <1>1, <1>6, <1>8

\* A patch without changes leaves the row.
LEMMA NothingPatched ==
  ASSUME NEW o \in Order
  PROVE  Patched(o, NoChanges) = o
  BY DEF Patched, Coalesce, NoChanges, Order

\* What decision d on an order says it found in row x and left in row y.
Explains(d, x, y) ==
  Evaluated(d) => d.fromStatus = StatusOrNull(x) /\ d.toStatus = StatusOrNull(y)

\* Decision k records the status it found and the status it left.
Explained(k) ==
  LET o == RawOf(decisions[k]).orderId
  IN  Explains(decisions[k], ReplayedOrder(o, k - 1), ReplayedOrder(o, k))

\* What takes effect leaves an order behind, and nothing else changes one.
Effective(d) == IF Applied(d) THEN d.toStatus # NULL ELSE d.changedFields = NoChanges

EffectsShown == \A k \in DOMAIN decisions : Effective(decisions[k])

\* The invariant: a decision that changes nothing replays to the order it found, any
\* other to the order it left.
AuditInv == DeliveryInv /\ AuditReplaysOrders /\ EffectsShown

LEMMA InitAuditInv == Init => AuditInv
<1> SUFFICES ASSUME Init PROVE AuditInv
  OBVIOUS
<1>1. DeliveryInv /\ IInv
  BY InitDeliveryInv, InitInv
<1>2. DOMAIN decisions = {} /\ Len(decisions) = 0
  BY DEF Init
<1>3. \A o \in OrderIds : orders[o] = NoOrder /\ ReplayedOrder(o, 0) = NoOrder
  BY <1>1, ReplayFollowsLog DEF Init, LogReplays, Replays
<1> QED
  BY <1>1, <1>2, <1>3 DEF AuditInv, AuditReplaysOrders, EffectsShown

\* A transaction that decides a delivery writes to its order what the decision records
\* as changed, and the decision names the statuses it found and left.
LEMMA DecisionExplains ==
  ASSUME IInv, NEW i \in DOMAIN inbox, NEW d \in Decision, NEW r \in Row,
         DecidedBy(i, d, r)
  PROVE  LET o == inbox[i].raw.orderId
         IN  /\ \A p \in OrderIds :
                  orders'[p] = IF p = o THEN Patched(orders[p], d.changedFields)
                                        ELSE orders[p]
             /\ Evaluated(d) => /\ o \in OrderIds
                                /\ Explains(d, orders[o], orders'[o])
             /\ Effective(d)
<1>1. PICK e : e = inbox[i].raw
  OBVIOUS
<1>2. CASE OrderAsked(i, d, r)
  <2>1. PICK out : out = OutcomeOf(i)
    OBVIOUS
  <2>2. PICK o : o = orders[e.orderId]
    OBVIOUS
  <2>3. PICK v : v = versions[e.orderId]
    OBVIOUS
  <2>4. /\ e.orderId \in OrderIds /\ o \in Order
        /\ Refused(o, v, out) \/ TakesEffect(o, v, e, out)
        /\ d.changedFields = out.changedFields
        /\ orders'[e.orderId] = out.order
        /\ \A p \in OrderIds \ {e.orderId} : orders'[p] = orders[p]
    BY <1>1, <1>2, <2>1, <2>2, <2>3, OrderAnswers
  <2>5. d.fromStatus = out.fromStatus /\ d.toStatus = out.toStatus
    BY <1>2, <2>1 DEF OrderAsked, OutcomeDecision
  <2>6. /\ out.order = Patched(o, d.changedFields)
        /\ out.fromStatus = StatusOrNull(o) /\ out.toStatus = StatusOrNull(out.order)
    BY <2>4, NothingPatched DEF Refused, TakesEffect
  <2>7. Effective(d)
    <3>1. d.decision = out.decision
      BY <1>2, <2>1 DEF OrderAsked, OutcomeDecision
    <3>2. CASE Refused(o, v, out)
      BY <2>4, <3>1, <3>2 DEF Refused, Effective, Applied
    <3>3. CASE TakesEffect(o, v, e, out)
      <4>1. Applied(d) /\ ~Missing(out.order)
        BY <3>1, <3>3 DEF TakesEffect, Applied
      <4>2. out.order \in Order
        BY <2>4, <2>6, PatchedType DEF Decision
      <4>3. out.order.status # NULL
        BY <4>2, NullAssumption DEF Order
      <4> QED
        BY <2>5, <2>6, <4>1, <4>3 DEF Effective, StatusOrNull
    <3> QED
      BY <2>4, <3>2, <3>3
  <2> QED
    BY <1>1, <2>2, <2>4, <2>5, <2>6, <2>7 DEF Explains
<1>3. CASE /\ GivenUp(i, d, r) \/ FoundInvalid(i, d, r) \/ FoundDuplicate(i, d, r)
           /\ d.changedFields = NoChanges
           /\ UNCHANGED <<keys, orders, versions>>
  <2>1. ~Evaluated(d) /\ Effective(d)
    BY <1>3 DEF GivenUp, FoundInvalid, FoundDuplicate, Evaluated, Applied, Effective
  <2>2. \A p \in OrderIds : orders[p] \in Order
    BY DEF IInv, TypeOK
  <2> QED
    BY <1>3, <2>1, <2>2, NothingPatched
<1> QED
  BY <1>2, <1>3 DEF DecidedBy

\* The invariant is inductive: every decision explains the order row it leaves from
\* the one it found, and no other step changes an order.
THEOREM AuditStep == AuditInv /\ [Next]_vars => AuditInv'
<1> SUFFICES ASSUME AuditInv, [Next]_vars PROVE AuditInv'
  OBVIOUS
<1>1. /\ DeliveryInv /\ IInv /\ OnlyRetriesWait /\ AuditReplaysOrders /\ EffectsShown
      /\ DeliveryInv' /\ IInv'
  BY DeliveryStep DEF AuditInv, DeliveryInv
<1>2. PICK m : m = Len(decisions)
  OBVIOUS
<1>3. HistoryKept
  BY <1>1, StepKeepsHistory
<1>4. m \in Nat /\ DOMAIN decisions = 1..m
  BY <1>1, <1>2, LogType DEF IInv
<1>5. \A o : \A k \in 0..m : ReplayedOrder(o, k)' = ReplayedOrder(o, k)
  BY <1>1, <1>2, <1>3, ReplayKept
<1>6. ASSUME NEW k \in DOMAIN decisions
      PROVE  /\ RawOf(decisions[k])' = RawOf(decisions[k])
             /\ decisions'[k] = decisions[k] /\ k \in DOMAIN decisions'
             /\ k \in 0..m /\ k - 1 \in 0..m
  BY <1>1, <1>3, <1>4 DEF HistoryKept, IInv, DoneIffDecided, RawOf
<1>7. \A o \in OrderIds : orders[o] = ReplayedOrder(o, m)
  BY <1>1, <1>2 DEF AuditReplaysOrders
<1>8. ASSUME NEW k \in DOMAIN decisions
      PROVE  Explained(k)'
  <2>1. PICK o : o = RawOf(decisions[k]).orderId
    OBVIOUS
  <2>2. Explains(decisions[k], ReplayedOrder(o, k - 1), ReplayedOrder(o, k))
    BY <1>1, <2>1 DEF AuditReplaysOrders, Explains
  <2>3. /\ ReplayedOrder(o, k - 1)' = ReplayedOrder(o, k - 1)
        /\ ReplayedOrder(o, k)' = ReplayedOrder(o, k)
    BY <1>5, <1>6
  <2>4. RawOf(decisions[k])'.orderId = o /\ decisions'[k] = decisions[k]
    BY <1>6, <2>1
  <2>5. Explains(decisions'[k], ReplayedOrder(o, k - 1)', ReplayedOrder(o, k)')
    BY <2>2, <2>3, <2>4
  <2> QED
    BY <2>4, <2>5 DEF Explained, Explains, Evaluated, Applied
<1>9. CASE UNCHANGED <<orders, decisions>>
  <2>1. \A o \in OrderIds : orders'[o] = ReplayedOrder(o, m)'
    BY <1>4, <1>5, <1>7, <1>9
  <2> QED
    BY <1>1, <1>2, <1>8, <1>9, <2>1
       DEF AuditInv, AuditReplaysOrders, Explained, Explains, EffectsShown, Effective, Applied
<1>10. ASSUME NEW i \in DOMAIN inbox, NEW d \in Decision, NEW r \in Row, DecidedBy(i, d, r)
       PROVE  AuditInv'
  <2>1. PICK e : e = inbox[i].raw
    OBVIOUS
  <2>2. PICK n : n = m + 1
    OBVIOUS
  <2>3. /\ DOMAIN decisions' = DOMAIN decisions \cup {n} /\ decisions'[n] = d
        /\ d.rawIncomingEventId = i /\ Len(decisions') = n /\ n - 1 = m /\ m \in 0..m
    <3>1. /\ decisions' = Append(decisions, d) /\ DOMAIN decisions' = 1..n
          /\ decisions'[n] = d /\ d.rawIncomingEventId = i
      BY <1>2, <1>10, <2>2 DEF DecidedBy, Logged
    <3>2. decisions \in Seq(Decision)
      BY <1>1 DEF IInv, TypeOK
    <3>3. Len(decisions') = n
      BY <1>2, <2>2, <3>1, <3>2, AppendProperties
    <3>4. 1..n = 1..m \cup {n} /\ n - 1 = m /\ m \in 0..m
      BY <1>4, <2>2
    <3> QED
      BY <1>4, <3>1, <3>3, <3>4
  <2>4. \A o : ReplayedOrder(o, n)' =
          IF e.orderId = o THEN Patched(ReplayedOrder(o, m), d.changedFields)
                           ELSE ReplayedOrder(o, m)
    BY <1>1, <1>2, <1>10, <2>1, <2>2, DecisionReplayed
  <2>5. /\ \A p \in OrderIds :
             orders'[p] = IF p = e.orderId THEN Patched(orders[p], d.changedFields)
                                           ELSE orders[p]
        /\ Evaluated(d) => /\ e.orderId \in OrderIds
                           /\ Explains(d, orders[e.orderId], orders'[e.orderId])
        /\ Effective(d)
    BY <1>1, <1>10, <2>1, DecisionExplains
  <2>6. \A p \in OrderIds : orders'[p] = ReplayedOrder(p, n)'
    BY <1>7, <2>4, <2>5
  <2>7. Explained(n)'
    <3>1. RawOf(decisions[n])' = e
      BY <1>3, <2>1, <2>3 DEF HistoryKept, RawOf
    <3>2. ReplayedOrder(e.orderId, n - 1)' = ReplayedOrder(e.orderId, m)
      BY <1>5, <2>1, <2>3
    <3>3. Evaluated(d) => Explains(d, ReplayedOrder(e.orderId, m),
                                   ReplayedOrder(e.orderId, n)')
      BY <1>7, <2>4, <2>5, <2>6
    <3> QED
      BY <2>3, <3>1, <3>2, <3>3 DEF Explained, Explains, Evaluated, Applied
  <2>8. EffectsShown'
    BY <1>1, <1>6, <2>3, <2>5 DEF EffectsShown, Effective, Applied
  <2> QED
    BY <1>1, <1>8, <2>3, <2>6, <2>7, <2>8 DEF AuditInv, AuditReplaysOrders, Explained, Explains
<1> QED
  BY <1>1, <1>9, <1>10, DatabaseSteps DEF database, RowsAdded, DelayPassed, PutOff

\* The audit log explains the orders: replaying its changed fields yields every order
\* row, and each decision on an order records the status it found and left (the
\* decision is written in the transaction that changes the order).
THEOREM AuditExplains == Spec => []AuditReplaysOrders
  BY InitAuditInv, AuditStep, PTL DEF Spec, AuditInv

-----------------------------------------------------------------------------
\* Sums over the log.

\* A sum is reached by adding one amount after the other.
LEMMA SumSteps ==
  ASSUME NEW n \in Nat, NEW amount, \A k \in 1..n : amount[k] \in Nat
  PROVE  \E sum : /\ sum[0] = 0 /\ \A k \in 1..n : sum[k] = sum[k - 1] + amount[k]
                  /\ sum[n] \in Nat /\ SumTo(n, amount) = sum[n]
<1>1. PICK S : S = [k \in 1..n |-> [x \in Nat |-> x + amount[k]]]
  OBVIOUS
<1>2. S \in [1..n -> [Nat -> Nat]]
  BY <1>1
<1>3. PICK f : f \in [0..n -> Nat] /\ Follows(f, n, 0, S)
  BY <1>2, StepsFollowed
<1>4. ASSUME NEW k \in 0..n
      PROVE  f[k] = IF k = 0 THEN 0 ELSE f[k - 1] + amount[k]
  <2>1. CASE k = 0
    BY <1>3, <2>1 DEF Follows
  <2>2. CASE k # 0
    <3>1. k \in 1..n /\ k - 1 \in 0..n
      BY <2>2
    <3>2. f[k] = S[k][f[k - 1]] /\ f[k - 1] \in Nat
      BY <1>3, <2>2, <3>1 DEF Follows
    <3> QED
      BY <1>1, <2>2, <3>1, <3>2
  <2> QED
    BY <2>1, <2>2
<1>5. f = [k \in 0..n |-> IF k = 0 THEN 0 ELSE f[k - 1] + amount[k]]
  BY <1>3, <1>4
<1>6. PICK sum : /\ sum = [k \in 0..n |-> IF k = 0 THEN 0 ELSE sum[k - 1] + amount[k]]
                 /\ SumTo(n, amount) = sum[n]
  BY <1>5 DEF SumTo
<1>7. sum[0] = 0 /\ \A k \in 1..n : sum[k] = sum[k - 1] + amount[k]
  <2>1. 0 \in 0..n /\ \A k \in 1..n : k \in 0..n /\ k # 0
    OBVIOUS
  <2> QED
    BY <1>6, <2>1
<1>8. f[0] = sum[0]
  BY <1>4, <1>7
<1>9. ASSUME NEW k \in 1..n, f[k - 1] = sum[k - 1] PROVE f[k] = sum[k]
  <2>1. k \in 0..n /\ k # 0
    OBVIOUS
  <2> QED
    BY <1>4, <1>7, <1>9, <2>1
<1>10. \A k \in 1..n : f[k - 1] = sum[k - 1] => f[k] = sum[k]
  BY <1>9
<1>11. \A k \in 0..n : f[k] = sum[k]
  BY <1>8, <1>10, SameSteps
<1>12. n \in 0..n /\ f[n] \in Nat
  BY <1>3
<1> QED
  BY <1>6, <1>7, <1>11, <1>12

\* A sum grows by the amount at its end.
LEMMA SumGrows ==
  ASSUME NEW n \in Nat, NEW a, NEW b, b[n + 1] \in Nat,
         \A k \in 1..n : a[k] \in Nat /\ b[k] = a[k]
  PROVE  SumTo(n + 1, b) = SumTo(n, a) + b[n + 1]
<1>1. PICK f : /\ f[0] = 0 /\ \A k \in 1..n : f[k] = f[k - 1] + a[k]
               /\ f[n] \in Nat /\ SumTo(n, a) = f[n]
  BY SumSteps
<1>2. \A k \in 1..(n + 1) : b[k] \in Nat
  OBVIOUS
<1>3. PICK g : /\ g[0] = 0 /\ \A k \in 1..(n + 1) : g[k] = g[k - 1] + b[k]
               /\ g[n + 1] \in Nat /\ SumTo(n + 1, b) = g[n + 1]
  BY <1>2, SumSteps
<1>4. f[0] = g[0] /\ \A k \in 1..n : f[k - 1] = g[k - 1] => f[k] = g[k]
  <2>1. \A k \in 1..n : k \in 1..(n + 1)
    OBVIOUS
  <2> QED
    BY <1>1, <1>3, <2>1
<1>5. \A k \in 0..n : f[k] = g[k]
  BY <1>4, SameSteps
<1>6. n \in 0..n /\ n + 1 \in 1..(n + 1) /\ (n + 1) - 1 = n
  OBVIOUS
<1> QED
  BY <1>1, <1>3, <1>5, <1>6

-----------------------------------------------------------------------------
\* Money.

MoneyCounted ==
  \A k \in DOMAIN decisions : \A o \in OrderIds :
    CapturedBy(decisions[k], o) \in Nat /\ RefundedBy(decisions[k], o) \in Nat

\* The invariant: what the log says was captured and refunded are amounts, and an order
\* holds their sums.
MoneyInv == DeliveryInv /\ MoneyCounted /\ MoneyAddsUp

\* Decision d adds to the money of its order what it says.
LEMMA DecisionMovesMoney ==
  ASSUME IInv, OnlyRetriesWait, [Next]_vars, HistoryKept, NEW n, n = Len(decisions) + 1,
         NEW i \in DOMAIN inbox, NEW d \in Decision, NEW r \in Row, DecidedBy(i, d, r)
  PROVE  \A p \in OrderIds :
           /\ CapturedBy(decisions[n], p)' \in Nat /\ RefundedBy(decisions[n], p)' \in Nat
           /\ orders'[p].paidAmountMinor =
                orders[p].paidAmountMinor + CapturedBy(decisions[n], p)'
           /\ orders'[p].refundedAmountMinor =
                orders[p].refundedAmountMinor + RefundedBy(decisions[n], p)'
<1> SUFFICES ASSUME NEW p \in OrderIds
             PROVE  /\ CapturedBy(decisions[n], p)' \in Nat
                    /\ RefundedBy(decisions[n], p)' \in Nat
                    /\ orders'[p].paidAmountMinor =
                         orders[p].paidAmountMinor + CapturedBy(decisions[n], p)'
                    /\ orders'[p].refundedAmountMinor =
                         orders[p].refundedAmountMinor + RefundedBy(decisions[n], p)'
  OBVIOUS
<1>1. PICK e : e = inbox[i].raw
  OBVIOUS
<1>2. /\ orders[p].paidAmountMinor \in Nat /\ orders[p].refundedAmountMinor \in Nat
      /\ orders[p] \in Order
  BY DEF IInv, TypeOK, Order
<1>3. decisions'[n] = d /\ RawOf(decisions[n])' = e
  BY <1>1 DEF DecidedBy, Logged, HistoryKept, RawOf
<1>4. /\ CapturedBy(decisions[n], p)' =
           IF Applied(d) /\ e.orderId = p /\ e.type = "PAYMENT_CAPTURED"
           THEN ReadAmountMinor(e.payload.amount) ELSE 0
      /\ RefundedBy(decisions[n], p)' =
           IF Applied(d) /\ e.orderId = p /\ e.type = "REFUND_ISSUED"
           THEN ReadRefundAmountMinor(e.payload) ELSE 0
  BY <1>3 DEF CapturedBy, RefundedBy, Applied
<1>5. CASE OrderAsked(i, d, r)
  <2>1. PICK out : out = OutcomeOf(i)
    OBVIOUS
  <2>2. PICK o : o = orders[e.orderId]
    OBVIOUS
  <2>3. /\ e.orderId \in OrderIds
        /\ orders'[e.orderId] = out.order
        /\ \A q \in OrderIds \ {e.orderId} : orders'[q] = orders[q]
    BY <1>1, <1>5, <2>1, OrderAnswers
  <2>4. MovesMoney(o, e, out)
    <3>1. TypeOK /\ LedgerConsistent /\ Valid(i)
      BY <1>5 DEF IInv, OrderAsked, Claims
    <3>2. /\ e \in Event /\ o \in Order /\ versions[e.orderId] \in Versions
          /\ ConsistentRow(o)
      BY <1>1, <2>2, <3>1, OutcomeOfRecords
    <3>3. out = HandleEvent(o, versions[e.orderId], e)
      BY <1>1, <2>1, <2>2 DEF OutcomeOf
    <3> QED
      BY <3>2, <3>3, HandleEventMoney
  <2>5. Applied(d) <=> Takes(out)
    BY <1>5, <2>1 DEF OrderAsked, OutcomeDecision, Applied, Takes
  <2>6. CASE p = e.orderId
    <3>1. /\ CapturedBy(decisions[n], p)' = CapturedAmount(e, out)
          /\ RefundedBy(decisions[n], p)' = RefundedAmount(e, out)
      BY <1>4, <2>5, <2>6 DEF CapturedAmount, RefundedAmount
    <3> QED
      BY <2>2, <2>3, <2>4, <2>6, <3>1 DEF MovesMoney
  <2>7. CASE p # e.orderId
    BY <1>2, <1>4, <2>3, <2>7
  <2> QED
    BY <2>6, <2>7
<1>6. CASE /\ GivenUp(i, d, r) \/ FoundInvalid(i, d, r) \/ FoundDuplicate(i, d, r)
           /\ d.changedFields = NoChanges
           /\ UNCHANGED <<keys, orders, versions>>
  <2>1. ~Applied(d)
    BY <1>6 DEF GivenUp, FoundInvalid, FoundDuplicate, Applied
  <2> QED
    BY <1>2, <1>4, <1>6, <2>1
<1> QED
  BY <1>5, <1>6 DEF DecidedBy

LEMMA InitMoneyInv == Init => MoneyInv
<1> SUFFICES ASSUME Init PROVE MoneyInv
  OBVIOUS
<1>1. DeliveryInv
  BY InitDeliveryInv
<1>2. DOMAIN decisions = {} /\ Len(decisions) = 0
  BY DEF Init
<1>3. \A a : SumTo(0, a) = 0
  <2>1. ASSUME NEW a PROVE SumTo(0, a) = 0
    <3>1. \A k \in 1..0 : a[k] \in Nat
      OBVIOUS
    <3> QED
      BY <3>1, SumSteps
  <2> QED
    BY <2>1
<1>4. \A o \in OrderIds : orders[o].paidAmountMinor = 0 /\ orders[o].refundedAmountMinor = 0
  BY DEF Init, NoOrder
<1>5. MoneyAddsUp
  BY <1>2, <1>3, <1>4 DEF MoneyAddsUp
<1> QED
  BY <1>1, <1>2, <1>5 DEF MoneyInv, MoneyCounted

\* The invariant is inductive: the decision that ends the log adds to the sums what
\* its transaction adds to the order.
THEOREM MoneyStep == MoneyInv /\ [Next]_vars => MoneyInv'
<1> SUFFICES ASSUME MoneyInv, [Next]_vars PROVE MoneyInv'
  OBVIOUS
<1>1. /\ DeliveryInv /\ IInv /\ OnlyRetriesWait /\ MoneyCounted /\ MoneyAddsUp
      /\ DeliveryInv' /\ IInv'
  BY DeliveryStep DEF MoneyInv, DeliveryInv
<1>2. PICK m : m = Len(decisions)
  OBVIOUS
<1>3. HistoryKept
  BY <1>1, StepKeepsHistory
<1>4. m \in Nat /\ DOMAIN decisions = 1..m
  BY <1>1, <1>2, LogType DEF IInv
<1>5. ASSUME NEW k \in DOMAIN decisions, NEW p
      PROVE  /\ CapturedBy(decisions[k], p)' = CapturedBy(decisions[k], p)
             /\ RefundedBy(decisions[k], p)' = RefundedBy(decisions[k], p)
  <2>1. RawOf(decisions[k])' = RawOf(decisions[k]) /\ decisions'[k] = decisions[k]
    BY <1>1, <1>3 DEF HistoryKept, IInv, DoneIffDecided, RawOf
  <2> QED
    BY <2>1 DEF CapturedBy, RefundedBy, Applied
<1>6. CASE UNCHANGED <<orders, decisions>>
  <2>1. MoneyCounted'
    BY <1>1, <1>5, <1>6 DEF MoneyCounted
  <2>2. ASSUME NEW p \in OrderIds
        PROVE  /\ [k \in DOMAIN decisions |-> CapturedBy(decisions[k], p)]' =
                  [k \in DOMAIN decisions |-> CapturedBy(decisions[k], p)]
               /\ [k \in DOMAIN decisions |-> RefundedBy(decisions[k], p)]' =
                  [k \in DOMAIN decisions |-> RefundedBy(decisions[k], p)]
    BY <1>5, <1>6
  <2>3. MoneyAddsUp'
    BY <1>1, <1>6, <2>2 DEF MoneyAddsUp
  <2> QED
    BY <1>1, <2>1, <2>3 DEF MoneyInv
<1>7. ASSUME NEW i \in DOMAIN inbox, NEW d \in Decision, NEW r \in Row, DecidedBy(i, d, r)
      PROVE  MoneyInv'
  <2>1. PICK n : n = m + 1
    OBVIOUS
  <2>2. DOMAIN decisions' = 1..n /\ Len(decisions') = n /\ n \in DOMAIN decisions'
    <3>1. decisions' = Append(decisions, d) /\ DOMAIN decisions' = 1..n
      BY <1>2, <1>7, <2>1 DEF DecidedBy, Logged
    <3>2. decisions \in Seq(Decision)
      BY <1>1 DEF IInv, TypeOK
    <3>3. Len(decisions') = n
      BY <1>2, <2>1, <3>1, <3>2, AppendProperties
    <3> QED
      BY <1>4, <2>1, <3>1, <3>3
  <2>3. ASSUME NEW p \in OrderIds
        PROVE  /\ CapturedBy(decisions[n], p)' \in Nat /\ RefundedBy(decisions[n], p)' \in Nat
               /\ orders'[p].paidAmountMinor =
                    orders[p].paidAmountMinor + CapturedBy(decisions[n], p)'
               /\ orders'[p].refundedAmountMinor =
                    orders[p].refundedAmountMinor + RefundedBy(decisions[n], p)'
    BY <1>1, <1>2, <1>3, <1>7, <2>1, DecisionMovesMoney
  <2>4. MoneyCounted'
    <3>1. \A k \in DOMAIN decisions' : k = n \/ k \in DOMAIN decisions
      BY <1>4, <2>1, <2>2
    <3> QED
      BY <1>1, <1>5, <2>3, <3>1 DEF MoneyCounted
  <2>5. ASSUME NEW p \in OrderIds
        PROVE  orders'[p].paidAmountMinor =
                 SumTo(n, [k \in DOMAIN decisions |-> CapturedBy(decisions[k], p)]')
    <3>1. PICK a : a = [k \in DOMAIN decisions |-> CapturedBy(decisions[k], p)]
      OBVIOUS
    <3>2. PICK b : b = [k \in DOMAIN decisions |-> CapturedBy(decisions[k], p)]'
      OBVIOUS
    <3>3. orders[p].paidAmountMinor = SumTo(m, a)
      BY <1>1, <1>2, <3>1 DEF MoneyAddsUp
    <3>4. \A k \in 1..m : a[k] \in Nat /\ b[k] = a[k]
      BY <1>1, <1>4, <1>5, <2>1, <2>2, <3>1, <3>2 DEF MoneyCounted
    <3>5. b[m + 1] = CapturedBy(decisions[n], p)'
      BY <2>1, <2>2, <3>2
    <3>6. SumTo(m + 1, b) = SumTo(m, a) + b[m + 1]
      <4>1. b[m + 1] \in Nat
        BY <2>3, <3>5
      <4> QED
        BY <1>4, <3>4, <4>1, SumGrows
    <3> QED
      BY <2>1, <2>3, <3>2, <3>3, <3>5, <3>6
  <2>6. ASSUME NEW p \in OrderIds
        PROVE  orders'[p].refundedAmountMinor =
                 SumTo(n, [k \in DOMAIN decisions |-> RefundedBy(decisions[k], p)]')
    <3>1. PICK a : a = [k \in DOMAIN decisions |-> RefundedBy(decisions[k], p)]
      OBVIOUS
    <3>2. PICK b : b = [k \in DOMAIN decisions |-> RefundedBy(decisions[k], p)]'
      OBVIOUS
    <3>3. orders[p].refundedAmountMinor = SumTo(m, a)
      BY <1>1, <1>2, <3>1 DEF MoneyAddsUp
    <3>4. \A k \in 1..m : a[k] \in Nat /\ b[k] = a[k]
      BY <1>1, <1>4, <1>5, <2>1, <2>2, <3>1, <3>2 DEF MoneyCounted
    <3>5. b[m + 1] = RefundedBy(decisions[n], p)'
      BY <2>1, <2>2, <3>2
    <3>6. SumTo(m + 1, b) = SumTo(m, a) + b[m + 1]
      <4>1. b[m + 1] \in Nat
        BY <2>3, <3>5
      <4> QED
        BY <1>4, <3>4, <4>1, SumGrows
    <3> QED
      BY <2>1, <2>3, <3>2, <3>3, <3>5, <3>6
  <2>7. MoneyAddsUp'
    BY <2>2, <2>5, <2>6 DEF MoneyAddsUp
  <2> QED
    BY <1>1, <2>4, <2>7 DEF MoneyInv
<1> QED
  BY <1>1, <1>6, <1>7, DatabaseSteps DEF database, RowsAdded, DelayPassed, PutOff

\* Money moves once per applied event: what an order has paid and had refunded is the
\* sum of what its accepted captures and refunds say, late refunds included.
THEOREM MoneySums == Spec => []MoneyAddsUp
  BY InitMoneyInv, MoneyStep, PTL DEF Spec, MoneyInv
=============================================================================
