-------------------------- MODULE EvidenceProofs --------------------------
(***************************************************************************)
(* The parts of a proof bundle agree with each other, although they are    *)
(* read one after the other while the rows and the chain change: for any   *)
(* number of requests, agents, intents and events.                         *)
(***************************************************************************)
EXTENDS AuditProofs

-----------------------------------------------------------------------------
(* The inductive invariant.                                                *)

\* What the transaction of each operation still has to append.
Remaining ==
  [decide  |-> {<<"proposed", "decided">>, <<"decided">>, <<>>},
   mint    |-> {<<"minted">>, <<>>},
   approve |-> {<<"mfa", "minted">>, <<"minted">>, <<>>},
   sweep   |-> {<<"expired">>, <<>>},
   move    |-> {<<"moved">>, <<>>}]

\* The kinds of event each operation appends.
Writes ==
  [decide |-> {"proposed", "decided"}, mint |-> {"minted"}, approve |-> {"mfa", "minted"},
   sweep |-> {"expired"}, move |-> {"moved"}]

\* An event that named a state of the provider transaction of i.
Names(e, i) == content[e.id].intent = i /\ content[e.id].kind \in {"minted", "moved"}

ContentTyped ==
  /\ content \in Seq(Entry)
  /\ Len(content) = next

\* An open transaction appends what its operation appends, about its own intent,
\* to the chain of its row, which the committed row of that intent names too.
OwnInv ==
  \A r \in Requests :
    /\ DOMAIN work[r] = {"op", "intent", "row", "left"}
    /\ work[r] = Idle => pending[r] = {} /\ tail[r] = {}
    /\ work[r] # Idle => work[r].left \in Remaining[work[r].op]
    /\ \A t \in tail[r] : t.chain = work[r].row.chain
    /\ \A e \in pending[r] :
         /\ e.chain = work[r].row.chain /\ content[e.id].intent = work[r].intent
         /\ content[e.id].kind \in Writes[work[r].op]
    /\ work[r] # Idle /\ work[r].op # "decide" =>
         work[r].row.chain = row[work[r].intent].chain

\* A committed event is about a recorded intent and in the chain of its row.
TrailInv ==
  \A e \in events : \E i \in Intents :
    content[e.id].intent = i /\ Recorded(i) /\ e.chain = row[i].chain

\* A submission appends one decision, with its last event.
OneDecision(r) ==
  \E d \in pending[r] : /\ content[d.id].kind = "decided"
                        /\ \A f \in pending[r] : content[f.id].kind = "decided" => f = d

DecideInv ==
  \A r \in Requests : work[r].op = "decide" =>
    IF work[r].left = <<>> THEN OneDecision(r)
    ELSE \A e \in pending[r] : content[e.id].kind # "decided"

\* The first decision in the chain of x.
Leads(d, x) ==
  /\ d \in Decided(Trail(x))
  /\ \A f \in Decided(Trail(x)) : d.id <= f.id

\* The chain of a recorded intent has a first decision.
LeadInv == \A i \in Intents : Recorded(i) => \E d \in events : Leads(d, row[i].chain)

\* The event that names the state of a provider transaction is its last one.
CurrentInv ==
  \A i \in Intents : Minted(i) =>
    shown[i] = Unnamed \/ \A e \in events : Names(e, i) => e.id <= shown[i]

\* What a bundle in progress has read agrees, and what it has still to read will.
BundleInv ==
  reader.asks = "bundle" =>
    /\ reader.left = <<"events", "transaction", "chain">> =>
         \E d \in events : Leads(d, reader.chain) /\ content[d.id].intent = reader.intent
    /\ reader.left # <<"events", "transaction", "chain">> => reader.policy = reader.intent
    /\ reader.left \in {<<"chain">>, <<>>} =>
         \/ reader.shown = Unnamed
         \/ \A e \in reader.listed : Names(e, reader.intent) => e.id <= reader.shown

RecordInv == ContentTyped /\ OwnInv /\ TrailInv /\ DecideInv

-----------------------------------------------------------------------------
(* What transactions append.                                               *)

\* An append takes the first of what an operation has still to write.
LEMMA Remains ==
  ASSUME NEW op \in Ops, NEW left \in Remaining[op]
  PROVE  /\ Writes[op] \subseteq Kinds
         /\ left # <<>> => /\ Head(left) \in Writes[op] /\ Tail(left) \in Remaining[op]
                           /\ op = "decide" => (Head(left) = "decided" <=> Tail(left) = <<>>)
         /\ op \in {"decide", "sweep"} => Writes[op] \cap {"minted", "moved"} = {}
<1>1. CASE op = "decide"
  <2>1. left \in {<<"proposed", "decided">>, <<"decided">>, <<>>}
        /\ Writes[op] = {"proposed", "decided"}
        /\ Remaining[op] = {<<"proposed", "decided">>, <<"decided">>, <<>>}
    BY <1>1 DEF Remaining, Writes
  <2>2. CASE left = <<"proposed", "decided">>
    <3>1. Head(left) = "proposed" /\ Tail(left) = <<"decided">> /\ Tail(left) # <<>>
      BY <2>2
    <3> QED BY <1>1, <2>1, <3>1 DEF Kinds
  <2>3. CASE left = <<"decided">>
    <3>1. Head(left) = "decided" /\ Tail(left) = <<>>
      BY <2>3
    <3> QED BY <1>1, <2>1, <3>1 DEF Kinds
  <2> QED BY <1>1, <2>1, <2>2, <2>3 DEF Kinds
<1>2. CASE op = "approve"
  <2>1. left \in {<<"mfa", "minted">>, <<"minted">>, <<>>} /\ Writes[op] = {"mfa", "minted"}
        /\ Remaining[op] = {<<"mfa", "minted">>, <<"minted">>, <<>>}
    BY <1>2 DEF Remaining, Writes
  <2>2. CASE left = <<"mfa", "minted">>
    <3>1. Head(left) = "mfa" /\ Tail(left) = <<"minted">>
      BY <2>2
    <3> QED BY <1>2, <2>1, <3>1 DEF Kinds
  <2>3. CASE left = <<"minted">>
    <3>1. Head(left) = "minted" /\ Tail(left) = <<>>
      BY <2>3
    <3> QED BY <1>2, <2>1, <3>1 DEF Kinds
  <2> QED BY <1>2, <2>1, <2>2, <2>3 DEF Kinds
<1>3. ASSUME NEW kind, op \in {"mint", "sweep", "move"},
             kind \in Kinds, Remaining[op] = {<<kind>>, <<>>}, Writes[op] = {kind},
             op = "sweep" => kind = "expired"
      PROVE  /\ Writes[op] \subseteq Kinds
             /\ left # <<>> => /\ Head(left) \in Writes[op] /\ Tail(left) \in Remaining[op]
                               /\ op = "decide" => (Head(left) = "decided" <=> Tail(left) = <<>>)
             /\ op \in {"decide", "sweep"} => Writes[op] \cap {"minted", "moved"} = {}
  <2>1. Head(<<kind>>) = kind /\ Tail(<<kind>>) = <<>>
    OBVIOUS
  <2>2. left # <<>> => left = <<kind>>
    BY ONLY <1>3, left \in Remaining[op]
  <2> QED BY <1>3, <2>1, <2>2
<1>4. CASE op = "mint"
  <2>1. Remaining[op] = {<<"minted">>, <<>>} /\ Writes[op] = {"minted"} /\ "minted" \in Kinds
    BY <1>4 DEF Remaining, Writes, Kinds
  <2> QED BY <1>3, <1>4, <2>1
<1>5. CASE op = "sweep"
  <2>1. Remaining[op] = {<<"expired">>, <<>>} /\ Writes[op] = {"expired"} /\ "expired" \in Kinds
    BY <1>5 DEF Remaining, Writes, Kinds
  <2> QED BY <1>3, <1>5, <2>1
<1>6. CASE op = "move"
  <2>1. Remaining[op] = {<<"moved">>, <<>>} /\ Writes[op] = {"moved"} /\ "moved" \in Kinds
    BY <1>6 DEF Remaining, Writes, Kinds
  <2> QED BY <1>3, <1>6, <2>1
<1> QED BY <1>1, <1>2, <1>4, <1>5, <1>6 DEF Ops

\* Every event, committed or not, has its entry in content.
LEMMA Entries ==
  ASSUME TypeOK, IdsUnique
  PROVE  /\ next \in Nat
         /\ \A e \in events : e.id \in 1 .. next
         /\ \A r \in Requests : \A e \in pending[r] : e.id \in 1 .. next
<1>1. \A e \in events : e.id \in Nat \ {0} /\ e.id <= next
  BY DEF TypeOK, IdsUnique, L!Event
<1>2. \A r \in Requests : \A e \in pending[r] : e.id \in Nat \ {0} /\ e.id <= next
  BY DEF TypeOK, IdsUnique, L!Event
<1>3. next \in Nat
  BY DEF TypeOK
<1> QED BY <1>1, <1>2, <1>3

\* What is rolled back takes its own entries with it, and no others.
LEMMA GivesUpOwn ==
  ASSUME TypeOK, IdsUnique, NEW r \in Requests, GiveUp(r)
  PROVE  /\ content' = [k \in 1 .. next |->
                          IF \E e \in pending[r] : e.id = k THEN Gone ELSE content[k]]
         /\ \A e \in events : content'[e.id] = content[e.id]
         /\ \A q \in Requests \ {r} : \A e \in pending[q] : content'[e.id] = content[e.id]
<1>1. content' = [k \in 1 .. next |-> IF \E e \in pending[r] : e.id = k THEN Gone ELSE content[k]]
  BY DEF GiveUp
<1>2. \A e \in events : e.id \in 1 .. next /\ ~\E f \in pending[r] : f.id = e.id
  BY Entries DEF IdsUnique
<1>3. ASSUME NEW q \in Requests \ {r}, NEW e \in pending[q]
      PROVE  e.id \in 1 .. next /\ ~\E f \in pending[r] : f.id = e.id
  BY Entries DEF IdsUnique
<1> QED BY <1>1, <1>2, <1>3

\* The entry of a committed event is never changed.
LEMMA CommittedStay ==
  ASSUME TypeOK, IdsUnique, ContentTyped, [EvidenceNext]_evidenceVars
  PROVE  \A e \in events : content'[e.id] = content[e.id]
<1>1. \/ content' = content
      \/ \E r \in Requests : Insert(r)
      \/ \E r \in Requests : GiveUp(r)
  BY DEF EvidenceNext, evidenceVars, Decide, Mint, Approve, Sweep, Move, Begin, Lock, ReadOwnTail,
         Save, MoveUnnamed, ReadIntent, ReadTrail, ReadEvents, ReadTransaction, VerifyChain, Reads
<1>2. ASSUME NEW r \in Requests, Insert(r) PROVE \A e \in events : content'[e.id] = content[e.id]
  <2>1. PICK entry : content' = Append(content, entry)
    BY <1>2 DEF Insert
  <2>2. \A k \in 1 .. next : content'[k] = content[k]
    BY <2>1, Entries DEF ContentTyped
  <2> QED BY <2>2, Entries
<1> QED BY <1>1, <1>2, GivesUpOwn

\* A transaction that opens has written nothing yet.
LEMMA BeginRecords ==
  ASSUME WorkInv, RecordInv, NEW r \in Requests, NEW i \in Intents, NEW op \in Ops,
         NEW new \in Rows, NEW kinds, Begin(r, op, i, new, kinds),
         kinds \in Remaining[op], op = "decide" => kinds # <<>>,
         op # "decide" => new.chain = row[i].chain
  PROVE  RecordInv'
<1> DEFINE entry == [op |-> op, intent |-> i, row |-> new, left |-> kinds]
<1>1. /\ work' = [work EXCEPT ![r] = entry]
      /\ UNCHANGED <<events, next, locks, tail, pending, row, shown, content>>
      /\ pending[r] = {} /\ tail[r] = {}
  BY DEF Begin, Free, Untouched, vars
<1>2. \A q \in Requests : work'[q] = IF q = r THEN entry ELSE work[q]
  BY <1>1 DEF WorkInv, WorkTyped
<1>3. /\ entry.op = op /\ entry.intent = i /\ entry.row = new /\ entry.left = kinds
      /\ DOMAIN entry = {"op", "intent", "row", "left"}
  OBVIOUS
<1> HIDE DEF entry
<1>4. OwnInv'
  BY <1>1, <1>2, <1>3 DEF RecordInv, OwnInv
<1>5. DecideInv'
  <2> SUFFICES ASSUME NEW q \in Requests, work'[q].op = "decide"
               PROVE  (IF work[q].left = <<>> THEN OneDecision(q)
                       ELSE \A e \in pending[q] : content[e.id].kind # "decided")'
    BY DEF DecideInv
  <2>1. CASE q = r
    BY <1>1, <1>2, <1>3, <2>1
  <2>2. CASE q # r
    BY <1>1, <1>2, <2>2 DEF RecordInv, DecideInv, OneDecision
  <2> QED BY <2>1, <2>2
<1>6. ContentTyped' /\ TrailInv'
  BY <1>1 DEF RecordInv, ContentTyped, TrailInv, Recorded
<1> QED BY <1>4, <1>5, <1>6 DEF RecordInv

\* What Begin is asked for by each operation.
LEMMA OpensRecord ==
  ASSUME WorkInv, RecordInv, NEW r \in Requests, NEW i \in Intents,
         Decide(r, i) \/ Mint(r, i) \/ Approve(r, i) \/ Sweep(r, i) \/ Move(r, i)
  PROVE  RecordInv'
<1> USE DEF Ops
<1>0. /\ \A op \in {"mint", "approve", "sweep", "move"} : op # "decide"
      /\ <<"proposed", "decided">> # <<>>
  OBVIOUS
<1>k. /\ <<"proposed", "decided">> \in Remaining["decide"] /\ <<"minted">> \in Remaining["mint"]
      /\ <<"mfa", "minted">> \in Remaining["approve"] /\ <<"expired">> \in Remaining["sweep"]
      /\ <<"moved">> \in Remaining["move"]
  BY DEF Remaining
<1>r. row[i].decision # "absent" => row[i] \in Rows
  BY AbsentRow DEF WorkInv, WorkTyped
<1>1. CASE Decide(r, i)
  <2>1. PICK new \in Rows : Begin(r, "decide", i, new, <<"proposed", "decided">>)
    BY <1>1 DEF Decide
  <2> QED BY <1>0, <1>k, <2>1, BeginRecords
<1>2. CASE Mint(r, i)
  <2>1. Recorded(i) /\ Begin(r, "mint", i, Allowed(i), <<"minted">>)
    BY <1>2 DEF Mint
  <2> QED BY <1>k, <2>1, AllowedRow, BeginRecords
<1>3. CASE Approve(r, i)
  <2>1. Recorded(i) /\ Begin(r, "approve", i, Allowed(i), <<"mfa", "minted">>)
    BY <1>3, AbsentRow DEF Approve, Recorded
  <2> QED BY <1>k, <2>1, AllowedRow, BeginRecords
<1>4. CASE Sweep(r, i)
  <2> DEFINE new == [row[i] EXCEPT !.decision = "deny"]
  <2>1. Begin(r, "sweep", i, new, <<"expired">>) /\ row[i] \in Rows
    BY <1>4, <1>r DEF Sweep, Sweepable
  <2>2. new \in Rows /\ new.chain = row[i].chain
    BY <2>1 DEF Rows, Decisions
  <2> HIDE DEF new
  <2> QED BY <1>k, <2>1, <2>2, BeginRecords
<1>5. CASE Move(r, i)
  <2>1. Recorded(i) /\ Begin(r, "move", i, Allowed(i), <<"moved">>)
    BY <1>5 DEF Move, WorkInv, WorkTyped, Accounted
  <2> QED BY <1>k, <2>1, AllowedRow, BeginRecords
<1> QED BY <1>1, <1>2, <1>3, <1>4, <1>5

\* An insert adds one event, the next, to what a transaction has appended.
LEMMA InsertRecords ==
  ASSUME TypeOK, IdsUnique, WorkInv, RecordInv, NEW r \in Requests, Insert(r)
  PROVE  RecordInv'
<1>1. PICK t \in tail[r] :
        pending' = [pending EXCEPT ![r] =
                      @ \cup {[id |-> next + 1, chain |-> t.chain, prev |-> t.id]}]
  BY DEF Insert, Flush
<1> DEFINE new == [id |-> next + 1, chain |-> t.chain, prev |-> t.id]
           entry == [intent |-> work[r].intent, kind |-> Head(work[r].left)]
<1>2. /\ next' = next + 1 /\ events' = events /\ row' = row /\ shown' = shown
      /\ tail' = [tail EXCEPT ![r] = {}]
      /\ content' = Append(content, entry)
      /\ work[r].left # <<>>
  BY DEF Insert, Flush
<1>3. new.id = next + 1 /\ new.chain = t.chain
  OBVIOUS
<1>4. /\ \A q \in Requests : pending'[q] = IF q = r THEN pending[r] \cup {new} ELSE pending[q]
      /\ \A q \in Requests : tail'[q] = IF q = r THEN {} ELSE tail[q]
  BY <1>1, <1>2 DEF TypeOK
<1>5. work[r] # Idle /\ work[r].op \in Ops /\ work[r].intent \in Intents
  BY <1>2, IdleWork DEF WorkInv, WorkTyped
<1>6. work[r].left \in Remaining[work[r].op]
  BY <1>5 DEF RecordInv, OwnInv
<1>7. \A q \in Requests :
        /\ work'[q].op = work[q].op /\ work'[q].intent = work[q].intent
        /\ work'[q].row = work[q].row
        /\ work'[q].left = IF q = r THEN Tail(work[r].left) ELSE work[q].left
        /\ (work'[q] # Idle <=> work[q] # Idle) /\ DOMAIN work'[q] = DOMAIN work[q]
  <2>1. \A q \in Requests : work'[q] = IF q = r THEN [work[r] EXCEPT !.left = Tail(@)] ELSE work[q]
    BY DEF Insert, WorkInv, WorkTyped
  <2>2. DOMAIN work[r] = {"op", "intent", "row", "left"}
    BY DEF RecordInv, OwnInv
  <2> DEFINE done == [work[r] EXCEPT !.left = Tail(@)]
  <2>3. /\ done.op = work[r].op /\ done.intent = work[r].intent /\ done.row = work[r].row
        /\ done.left = Tail(work[r].left) /\ DOMAIN done = DOMAIN work[r]
    BY <2>2
  <2> HIDE DEF done
  <2>4. done # Idle
    BY <1>5, <2>3, IdleWork DEF Ops
  <2> QED BY <1>5, <2>1, <2>3, <2>4 DEF done
<1>8. /\ entry \in [intent : Intents, kind : Kinds] /\ entry.intent = work[r].intent
      /\ entry.kind = Head(work[r].left) /\ entry.kind \in Writes[work[r].op]
  BY <1>2, <1>5, <1>6, Remains
<1>9. /\ next \in Nat /\ \A e \in events : e.id \in 1 .. next
      /\ \A q \in Requests : \A e \in pending[q] : e.id \in 1 .. next
  BY Entries
<1> HIDE DEF entry
<1>10. /\ content' \in Seq(Entry) /\ Len(content') = next + 1
       /\ content'[next + 1] = entry
       /\ \A k \in 1 .. next : content'[k] = content[k]
  <2>1. entry \in Entry
    BY <1>8 DEF Entry
  <2> QED BY <1>2, <1>9, <2>1 DEF RecordInv, ContentTyped
<1> HIDE DEF new
<1>11. ContentTyped'
  BY <1>2, <1>10 DEF ContentTyped
<1>12. OwnInv'
  <2> SUFFICES ASSUME NEW q \in Requests
      PROVE  /\ DOMAIN work'[q] = {"op", "intent", "row", "left"}
             /\ work'[q] = Idle => pending'[q] = {} /\ tail'[q] = {}
             /\ work'[q] # Idle => work'[q].left \in Remaining[work'[q].op]
             /\ \A u \in tail'[q] : u.chain = work'[q].row.chain
             /\ \A e \in pending'[q] :
                  /\ e.chain = work'[q].row.chain /\ content'[e.id].intent = work'[q].intent
                  /\ content'[e.id].kind \in Writes[work'[q].op]
             /\ work'[q] # Idle /\ work'[q].op # "decide" =>
                  work'[q].row.chain = row'[work'[q].intent].chain
    BY DEF OwnInv
  <2>1. CASE q # r
    BY <1>2, <1>4, <1>7, <1>9, <1>10, <2>1 DEF RecordInv, OwnInv
  <2>2. CASE q = r
    <3>1. t.chain = work[r].row.chain
      BY DEF RecordInv, OwnInv
    <3>2. Tail(work[r].left) \in Remaining[work[r].op]
      BY <1>2, <1>5, <1>6, Remains
    <3>3. \A e \in pending'[r] :
            /\ e.chain = work[r].row.chain /\ content'[e.id].intent = work[r].intent
            /\ content'[e.id].kind \in Writes[work[r].op]
      BY <1>3, <1>4, <1>8, <1>9, <1>10, <3>1 DEF RecordInv, OwnInv
    <3>4. work[r].op # "decide" => work[r].row.chain = row[work[r].intent].chain
      BY <1>5 DEF RecordInv, OwnInv
    <3>5. DOMAIN work'[r] = {"op", "intent", "row", "left"}
      BY <1>7 DEF RecordInv, OwnInv
    <3>6. /\ work'[r] # Idle /\ work'[r].op = work[r].op /\ work'[r].intent = work[r].intent
          /\ work'[r].row = work[r].row /\ work'[r].left = Tail(work[r].left)
          /\ tail'[r] = {} /\ row' = row
      BY <1>2, <1>4, <1>5, <1>7
    <3> QED BY ONLY <2>2, <3>2, <3>3, <3>4, <3>5, <3>6
  <2> QED BY <2>1, <2>2
<1>13. TrailInv'
  BY <1>2, <1>9, <1>10 DEF RecordInv, TrailInv, Recorded
<1>14. DecideInv'
  <2> SUFFICES ASSUME NEW q \in Requests, work'[q].op = "decide"
               PROVE  (IF work[q].left = <<>> THEN OneDecision(q)
                       ELSE \A e \in pending[q] : content[e.id].kind # "decided")'
    BY DEF DecideInv
  <2>1. CASE q # r
    <3>1. work'[q].left = work[q].left /\ pending'[q] = pending[q] /\ work[q].op = "decide"
      BY <1>4, <1>7, <2>1
    <3>2. \A e \in pending[q] : content'[e.id] = content[e.id]
      BY <1>9, <1>10
    <3> QED BY <3>1, <3>2 DEF RecordInv, DecideInv, OneDecision
  <2>2. CASE q = r
    <3>1. /\ work[r].op = "decide" /\ work'[r].left = Tail(work[r].left)
          /\ \A e \in pending[r] : content'[e.id].kind # "decided"
      BY <1>2, <1>7, <1>9, <1>10, <2>2 DEF RecordInv, DecideInv
    <3>2. entry.kind = "decided" <=> Tail(work[r].left) = <<>>
      BY <1>2, <1>5, <1>6, <1>8, <3>1, Remains
    <3>3. content'[new.id] = entry /\ pending'[r] = pending[r] \cup {new}
      BY <1>3, <1>4, <1>10
    <3>4. CASE Tail(work[r].left) = <<>>
      <4>1. /\ new \in pending'[r] /\ content'[new.id].kind = "decided"
            /\ \A f \in pending'[r] : content'[f.id].kind = "decided" => f = new
        BY <3>1, <3>2, <3>3, <3>4
      <4>2. OneDecision(r)'
        BY <4>1 DEF OneDecision
      <4> QED BY <2>2, <3>1, <3>4, <4>2
    <3>5. CASE Tail(work[r].left) # <<>>
      BY <2>2, <3>1, <3>2, <3>3, <3>5
    <3> QED BY <3>4, <3>5
  <2> QED BY <2>1, <2>2
<1> QED BY <1>11, <1>12, <1>13, <1>14 DEF RecordInv

\* A transaction that closes takes what it appended with it, or commits it.
LEMMA ClosesRecords ==
  ASSUME WorkInv, RecordInv, TypeOK, NEW r \in Requests,
         work' = [work EXCEPT ![r] = Idle],
         pending' = [pending EXCEPT ![r] = {}], tail' = [tail EXCEPT ![r] = {}],
         next' = next, content' \in Seq(Entry), Len(content') = next,
         \A e \in events : content'[e.id] = content[e.id],
         \A q \in Requests \ {r} : \A e \in pending[q] : content'[e.id] = content[e.id],
         \A i \in Intents : Recorded(i) => Recorded(i)' /\ row'[i].chain = row[i].chain,
         \A q \in Requests \ {r} : work[q] # Idle /\ work[q].op # "decide" =>
           row'[work[q].intent].chain = row[work[q].intent].chain,
         \A e \in events' : e \in events \/
           \E i \in Intents : content'[e.id].intent = i /\ Recorded(i)' /\ e.chain = row'[i].chain
  PROVE  RecordInv'
<1>1. /\ \A q \in Requests : work'[q] = IF q = r THEN Idle ELSE work[q]
      /\ \A q \in Requests : pending'[q] = IF q = r THEN {} ELSE pending[q]
      /\ \A q \in Requests : tail'[q] = IF q = r THEN {} ELSE tail[q]
  BY DEF WorkInv, WorkTyped, TypeOK
<1>2. ContentTyped'
  BY DEF RecordInv, ContentTyped
<1>3. OwnInv'
  <2>1. DOMAIN Idle = {"op", "intent", "row", "left"}
    BY DEF Idle
  <2> QED BY <1>1, <2>1 DEF RecordInv, OwnInv
<1>4. TrailInv'
  BY DEF RecordInv, TrailInv
<1>5. DecideInv'
  <2> SUFFICES ASSUME NEW q \in Requests, work'[q].op = "decide"
               PROVE  (IF work[q].left = <<>> THEN OneDecision(q)
                       ELSE \A e \in pending[q] : content[e.id].kind # "decided")'
    BY DEF DecideInv
  <2>1. q # r /\ work'[q] = work[q] /\ pending'[q] = pending[q]
    BY <1>1, IdleWork
  <2>2. \A e \in pending[q] : content'[e.id] = content[e.id]
    BY <2>1
  <2>3. IF work[q].left = <<>> THEN OneDecision(q)
        ELSE \A e \in pending[q] : content[e.id].kind # "decided"
    BY <2>1 DEF RecordInv, DecideInv
  <2> QED BY ONLY <2>1, <2>2, <2>3 DEF OneDecision
<1> QED BY <1>2, <1>3, <1>4, <1>5 DEF RecordInv

\* What a commit writes in the rows: its own intent's, or nothing.
LEMMA SaveWrites ==
  ASSUME WorkInv, RecordInv, NEW r \in Requests, Save(r)
  PROVE  /\ Written(r) \in Rows /\ Written(r).chain = work[r].row.chain
         /\ \A j \in Intents : row'[j] = IF j = work[r].intent THEN Written(r) ELSE row[j]
<1>1. work[r] # Idle
  BY IdleWork DEF Save
<1>2. work[r].row \in Rows /\ work[r].op \in Ops /\ work[r].intent \in Intents
  BY <1>1 DEF WorkInv, WorkTyped
<1>3. work[r].op \in {"mint", "move"} =>
        row[work[r].intent] \in Rows /\ work[r].row.chain = row[work[r].intent].chain
  BY <1>1, <1>2 DEF WorkInv, WorkTyped, Recorded, Accounted, RecordInv, OwnInv
<1>4. \A j \in Intents : row'[j] = IF j = work[r].intent THEN Written(r) ELSE row[j]
  BY <1>2 DEF Save, Written, WorkInv, WorkTyped
<1> QED BY <1>2, <1>3, <1>4 DEF Written, Ops

\* A commit writes the row of its intent under the chain it always had.
LEMMA SaveRecords ==
  ASSUME WorkInv, RecordInv, TypeOK, NEW r \in Requests, Save(r)
  PROVE  RecordInv'
<1>1. /\ work[r] # Idle /\ work' = [work EXCEPT ![r] = Idle]
      /\ events' = events \cup pending[r] /\ next' = next /\ content' = content
      /\ pending' = [pending EXCEPT ![r] = {}] /\ tail' = [tail EXCEPT ![r] = {}]
  BY IdleWork DEF Save, Commit, Closed
<1>2. PICK i \in Intents : i = work[r].intent
  BY <1>1 DEF WorkInv, WorkTyped
<1>3. Written(r) \in Rows /\ Written(r) # Absent /\ Written(r).chain = work[r].row.chain
  BY <1>1, SaveWrites, AbsentRow
<1>4. \A j \in Intents : row'[j] = IF j = i THEN Written(r) ELSE row[j]
  BY <1>2, SaveWrites
<1>5. Recorded(i) => Written(r).chain = row[i].chain
  <2>1. Recorded(i) => work[r].op # "decide"
    BY <1>1, <1>2 DEF WorkInv, Recorded
  <2> QED BY <1>1, <1>2, <1>3, <2>1 DEF RecordInv, OwnInv
<1>6. \A j \in Intents : Recorded(j) => Recorded(j)' /\ row'[j].chain = row[j].chain
  BY <1>3, <1>4, <1>5 DEF Recorded
<1>7. ASSUME NEW q \in Requests \ {r}, work[q] # Idle, work[q].op # "decide"
      PROVE  row'[work[q].intent].chain = row[work[q].intent].chain
  <2>1. work[q].intent \in Intents /\ work[q].op \in Ops
    BY <1>7 DEF WorkInv, WorkTyped
  <2>2. Recorded(work[q].intent)
    BY <1>7, <2>1, AbsentRow DEF WorkInv, WorkTyped, Recorded, Accounted, Ops
  <2> QED BY <1>6, <2>1, <2>2
<1>8. \A e \in pending[r] : content[e.id].intent = i /\ e.chain = row'[i].chain /\ Recorded(i)'
  BY <1>2, <1>3, <1>4 DEF RecordInv, OwnInv, Recorded
<1>9. \A e \in events' : e \in events \/
        \E j \in Intents : content[e.id].intent = j /\ Recorded(j)' /\ e.chain = row'[j].chain
  BY <1>1, <1>8
<1> QED BY <1>1, <1>6, <1>7, <1>9, ClosesRecords DEF RecordInv, ContentTyped

LEMMA SameRecords ==
  ASSUME RecordInv, UNCHANGED <<events, next, tail, pending, row, content, work>>
  PROVE  RecordInv'
<1>1. ContentTyped' /\ OwnInv' /\ TrailInv'
  BY DEF RecordInv, ContentTyped, OwnInv, TrailInv, Recorded
<1>2. DecideInv'
  BY DEF RecordInv, DecideInv, OneDecision
<1> QED BY <1>1, <1>2 DEF RecordInv

LEMMA RecordInit == EvidenceInit => RecordInv
<1> SUFFICES ASSUME EvidenceInit PROVE RecordInv
  OBVIOUS
<1>1. ContentTyped
  BY DEF EvidenceInit, Init, ContentTyped
<1>2. OwnInv /\ DecideInv
  BY IdleWork DEF EvidenceInit, Init, OwnInv, DecideInv, Idle
<1>3. TrailInv
  BY DEF EvidenceInit, Init, TrailInv
<1> QED BY <1>1, <1>2, <1>3 DEF RecordInv

LEMMA RecordStep ==
  ASSUME TypeOK, IdsUnique, WorkInv, RecordInv, [EvidenceNext]_evidenceVars
  PROVE  RecordInv'
<1>1. CASE UNCHANGED evidenceVars
  BY <1>1, SameRecords DEF evidenceVars, vars
<1>2. ASSUME NEW r \in Requests, NEW i \in Intents,
             Decide(r, i) \/ Mint(r, i) \/ Approve(r, i) \/ Sweep(r, i) \/ Move(r, i)
      PROVE  RecordInv'
  BY <1>2, OpensRecord
<1>3. ASSUME NEW r \in Requests, Lock(r) PROVE RecordInv'
  BY <1>3, SameRecords DEF Lock, AcquireLock
<1>4. ASSUME NEW r \in Requests, ReadOwnTail(r) PROVE RecordInv'
  <2>1. PICK k \in 0 .. next :
          tail' = [tail EXCEPT ![r] = {[chain |-> work[r].row.chain, id |-> k]}]
    BY <1>4 DEF ReadOwnTail, ReadTail
  <2>2. work[r] # Idle /\ UNCHANGED <<events, next, pending, row, content, work>>
    BY <1>4, IdleWork DEF ReadOwnTail, ReadTail
  <2>3. \A q \in Requests : \A t \in tail'[q] :
          t \in tail[q] \/ (q = r /\ t.chain = work[r].row.chain)
    BY <2>1 DEF TypeOK
  <2>4. \A q \in Requests : q # r => tail'[q] = tail[q]
    BY <2>1 DEF TypeOK
  <2>5. OwnInv'
    BY <2>2, <2>3, <2>4 DEF RecordInv, OwnInv
  <2>6. ContentTyped' /\ TrailInv'
    BY <2>2 DEF RecordInv, ContentTyped, TrailInv, Recorded
  <2>7. DecideInv'
    BY <2>2 DEF RecordInv, DecideInv, OneDecision
  <2> QED BY <2>5, <2>6, <2>7 DEF RecordInv
<1>5. ASSUME NEW r \in Requests, Insert(r) PROVE RecordInv'
  BY <1>5, InsertRecords
<1>6. ASSUME NEW r \in Requests, Save(r) PROVE RecordInv'
  BY <1>6, SaveRecords
<1>7. ASSUME NEW r \in Requests, GiveUp(r) PROVE RecordInv'
  <2>1. /\ work' = [work EXCEPT ![r] = Idle] /\ row' = row
        /\ next' = next /\ events' = events
    BY <1>7 DEF GiveUp, Rollback, Closed, vars
  <2>2. pending' = [pending EXCEPT ![r] = {}] /\ tail' = [tail EXCEPT ![r] = {}]
    <3>1. CASE Rollback(r)
      BY <3>1 DEF Rollback, Closed
    <3>2. CASE Untouched(r) /\ UNCHANGED vars
      BY <3>2 DEF Untouched, vars, TypeOK
    <3> QED BY <1>7, <3>1, <3>2 DEF GiveUp
  <2>3. content' \in Seq(Entry) /\ Len(content') = next
    <3>1. next \in Nat /\ \A k \in 1 .. next : content[k] \in Entry
      BY DEF TypeOK, RecordInv, ContentTyped
    <3>2. \A k \in 1 .. next :
            (IF \E e \in pending[r] : e.id = k THEN Gone ELSE content[k]) \in Entry
      BY <3>1 DEF Entry
    <3> QED BY <1>7, <3>1, <3>2, GivesUpOwn
  <2>4. \A e \in events' : \E i \in Intents :
          content'[e.id].intent = i /\ Recorded(i)' /\ e.chain = row'[i].chain
    BY <1>7, <2>1, GivesUpOwn DEF RecordInv, TrailInv, Recorded
  <2> QED BY <1>7, <2>1, <2>2, <2>3, <2>4, GivesUpOwn, ClosesRecords DEF Recorded
<1>8. ASSUME NEW i \in Intents, MoveUnnamed(i) PROVE RecordInv'
  BY <1>8, SameRecords DEF MoveUnnamed, vars
<1>9. ASSUME NEW found, Reads(found) PROVE RecordInv'
  BY <1>9, SameRecords DEF Reads, vars
<1>10. ASSUME NEW x \in Chains, ReadIntent(x) \/ \E a \in Agents : ReadTrail(a, x) PROVE RecordInv'
  BY <1>9, <1>10 DEF ReadIntent, ReadTrail
<1>11. ASSUME ReadEvents \/ ReadTransaction \/ \E a \in Agents : VerifyChain(a) PROVE RecordInv'
  BY <1>9, <1>11 DEF ReadEvents, ReadTransaction, VerifyChain
<1> QED BY <1>1, <1>2, <1>3, <1>4, <1>5, <1>6, <1>7, <1>8, <1>10, <1>11 DEF EvidenceNext

-----------------------------------------------------------------------------
(* The first decision of a chain.                                          *)

\* The first decision stays the first: what is appended comes after it.
LEMMA LeadStays ==
  ASSUME TypeOK, TypeOK', IdsUnique, ContentTyped, [EvidenceNext]_evidenceVars,
         [L!Append]_events, NEW d \in events, NEW x, Leads(d, x)
  PROVE  d \in events' /\ Leads(d, x)' /\ content'[d.id] = content[d.id]
<1>1. \A e \in events : content'[e.id] = content[e.id]
  BY CommittedStay
<1>2. /\ events \subseteq events'
      /\ \A old \in events, new \in events' \ events : old.chain = new.chain => old.id < new.id
  BY DEF L!Append
<1>3. \A e \in events' : e.id \in Nat
  BY DEF TypeOK, L!Event
<1>4. d.chain = x /\ content[d.id].kind = "decided"
      /\ \A f \in events : f.chain = x /\ content[f.id].kind = "decided" => d.id <= f.id
  BY DEF Leads, Decided, Trail
<1>5. d \in events' /\ content'[d.id].kind = "decided"
  BY <1>1, <1>2, <1>4
<1>6. ASSUME NEW f \in events', f.chain = x, content'[f.id].kind = "decided" PROVE d.id <= f.id
  <2>1. CASE f \in events
    BY <1>1, <1>4, <1>6, <2>1
  <2>2. CASE f \notin events
    <3>1. d.id < f.id
      BY <1>2, <1>4, <1>6, <2>2
    <3> QED BY <1>2, <1>3, <3>1
  <2> QED BY <2>1, <2>2
<1> QED BY <1>1, <1>4, <1>5, <1>6 DEF Leads, Decided, Trail

LEMMA LeadStep ==
  ASSUME TypeOK, TypeOK', IdsUnique, WorkInv, RecordInv, LeadInv,
         [EvidenceNext]_evidenceVars, [L!Append]_events
  PROVE  LeadInv'
<1>c. ContentTyped
  BY DEF RecordInv
<1>1. ASSUME NEW j \in Intents, Recorded(j), row'[j].chain = row[j].chain
      PROVE  \E d \in events' : Leads(d, row[j].chain)'
  <2>1. PICK x : x = row[j].chain
    OBVIOUS
  <2>2. PICK d \in events : Leads(d, x)
    BY <1>1, <2>1 DEF LeadInv
  <2>3. d \in events' /\ Leads(d, x)'
    BY <1>c, <2>2, LeadStays
  <2> QED BY <1>1, <2>1, <2>3
<1>2. CASE row' = row
  BY <1>1, <1>2 DEF LeadInv, Recorded
<1>3. ASSUME NEW r \in Requests, Save(r) PROVE LeadInv'
  <2>1. /\ work[r] # Idle /\ work[r].left = <<>>
        /\ events' = events \cup pending[r] /\ content' = content
    BY <1>3, IdleWork DEF Save, Commit
  <2>2. PICK i \in Intents : i = work[r].intent
    BY <2>1 DEF WorkInv, WorkTyped
  <2>3. /\ \A j \in Intents : row'[j] = IF j = i THEN Written(r) ELSE row[j]
        /\ Written(r).chain = work[r].row.chain
    BY <1>3, <2>2, SaveWrites
  <2>4. ASSUME NEW j \in Intents, j # i, Recorded(j)'
        PROVE  \E d \in events' : Leads(d, row[j].chain)'
    BY <1>1, <2>3, <2>4 DEF Recorded
  <2>5. CASE Recorded(i)
    <3>1. work[r].op # "decide"
      BY <2>1, <2>2, <2>5 DEF WorkInv, Recorded
    <3>2. row'[i].chain = row[i].chain
      BY <2>1, <2>2, <2>3, <3>1 DEF RecordInv, OwnInv
    <3> QED BY <1>1, <2>4, <2>5, <3>2 DEF LeadInv
  <2>6. CASE ~Recorded(i)
    <3>1. work[r].op = "decide"
      BY <2>1, <2>2, <2>6, AbsentRow DEF WorkInv, WorkTyped, Recorded, Accounted, Ops
    <3>2. PICK x : x = work[r].row.chain
      OBVIOUS
    <3>3. PICK d \in pending[r] : /\ content[d.id].kind = "decided"
                                  /\ \A f \in pending[r] : content[f.id].kind = "decided" => f = d
      BY <2>1, <3>1 DEF RecordInv, DecideInv, OneDecision
    <3>4. row'[i].chain = x /\ d.chain = x /\ d \in events'
      BY <2>1, <2>3, <3>2, <3>3 DEF RecordInv, OwnInv
    <3>5. \E g \in events' : Leads(g, x)'
      <4>1. CASE \E e \in events : e.chain = x /\ content[e.id].kind = "decided"
        <5>1. PICK j \in Intents : Recorded(j) /\ row[j].chain = x
          BY <4>1 DEF RecordInv, TrailInv
        <5>2. PICK g \in events : Leads(g, x)
          BY <5>1 DEF LeadInv
        <5> QED BY <1>c, <5>2, LeadStays
      <4>2. CASE ~\E e \in events : e.chain = x /\ content[e.id].kind = "decided"
        <5>1. \A f \in events' : f.chain = x /\ content'[f.id].kind = "decided" => f = d
          BY <2>1, <3>3, <4>2
        <5>2. d.id \in Nat /\ content'[d.id].kind = "decided"
          BY <2>1, <3>3, <3>4 DEF TypeOK, L!Event
        <5> QED BY <3>4, <5>1, <5>2 DEF Leads, Decided, Trail
      <4> QED BY <4>1, <4>2
    <3> QED BY <2>4, <3>4, <3>5 DEF LeadInv
  <2> QED BY <2>5, <2>6
<1>4. row' = row \/ \E r \in Requests : Save(r)
  BY DEF EvidenceNext, evidenceVars, Decide, Mint, Approve, Sweep, Move, Begin, Lock, ReadOwnTail,
         Insert, GiveUp, MoveUnnamed, ReadIntent, ReadTrail, ReadEvents, ReadTransaction,
         VerifyChain, Reads
<1> QED BY <1>2, <1>3, <1>4

\* What a bundle takes for the first decision is the first decision.
LEMMA FirstIsLead ==
  ASSUME TypeOK, IdsUnique, NEW x, NEW d \in events, Leads(d, x)
  PROVE  FirstDecided(Trail(x)) = content[d.id].intent
<1> DEFINE log == Trail(x)
           Least(k) == \E e \in Decided(log) : e.id = k /\ \A f \in Decided(log) : k <= f.id
<1>1. d \in Decided(log) /\ \A f \in Decided(log) : d.id <= f.id
  BY DEF Leads
<1>2. d.id \in 1 .. next /\ \A f \in Decided(log) : f.id \in Nat
  BY Entries DEF Decided, Trail
<1>3. Least(d.id)
  BY <1>1
<1>4. \A k \in 1 .. next : Least(k) => k = d.id
  BY <1>1, <1>2
<1> HIDE DEF Least
<1>5. (CHOOSE k \in 1 .. next : Least(k)) = d.id
  BY <1>2, <1>3, <1>4
<1> QED BY <1>1, <1>5 DEF FirstDecided, Least

-----------------------------------------------------------------------------
(* The state beside the events.                                            *)

LEMMA CurrentStep ==
  ASSUME ChainInv, HasLast, WorkInv, RecordInv, CurrentInv, [EvidenceNext]_evidenceVars
  PROVE  CurrentInv'
<1>a. TypeOK /\ IdsUnique /\ ContentTyped
  BY DEF ChainInv, RecordInv
<1>b. \A e \in events : content'[e.id] = content[e.id]
  BY <1>a, CommittedStay
<1>1. CASE shown' = shown /\ events' = events
  BY <1>1, <1>b DEF CurrentInv, Names, Minted
<1>2. ASSUME NEW j \in Intents, MoveUnnamed(j) PROVE CurrentInv'
  <2>1. shown' = [shown EXCEPT ![j] = Unnamed] /\ events' = events
    BY <1>2 DEF MoveUnnamed, vars
  <2> QED BY <1>b, <2>1 DEF CurrentInv, Names, Minted, WorkInv, WorkTyped
<1>3. ASSUME NEW r \in Requests, Save(r) PROVE CurrentInv'
  <2>1. /\ work[r] # Idle /\ pending[r] # {}
        /\ events' = events \cup pending[r] /\ content' = content
        /\ shown' = IF work[r].op \in {"mint", "approve", "move"}
                      THEN [shown EXCEPT ![work[r].intent] = LastOf(r).id]
                      ELSE shown
    BY <1>3, IdleWork DEF Save, Commit
  <2>2. PICK i \in Intents : i = work[r].intent
    BY <2>1 DEF WorkInv, WorkTyped
  <2>3. work[r].op \in Ops /\ work[r].left \in Remaining[work[r].op]
    BY <2>1 DEF WorkInv, WorkTyped, RecordInv, OwnInv
  <2>4. \A j \in Intents : j # i => shown'[j] = shown[j]
    BY <2>1, <2>2 DEF WorkInv, WorkTyped
  <2>5. \A e \in pending[r] : content[e.id].intent = i
    BY <2>2 DEF RecordInv, OwnInv
  <2>6. \A j \in Intents, e \in events' : Names(e, j)' => Names(e, j) /\ (e \in events \/ j = i)
    BY <2>1, <2>5 DEF Names
  <2>7. ASSUME Minted(i)'
        PROVE  shown'[i] = Unnamed \/ \A e \in events' : Names(e, i)' => e.id <= shown'[i]
    <3>1. CASE work[r].op \in {"mint", "approve", "move"}
      <4>1. LastOf(r) \in pending[r] /\ \A f \in pending[r] : f.id <= LastOf(r).id
        BY <2>1 DEF HasLast, LastOf
      <4>2. shown'[i] = LastOf(r).id
        BY <2>1, <2>2, <3>1 DEF WorkInv, WorkTyped
      <4>3. LastOf(r).chain = row[i].chain
        BY <2>1, <2>2, <3>1, <4>1 DEF RecordInv, OwnInv
      <4>4. ASSUME NEW e \in events, Names(e, i) PROVE e.id <= LastOf(r).id
        <5>1. e.chain = row[i].chain
          BY <4>4 DEF RecordInv, TrailInv, Names
        <5>2. e.id < LastOf(r).id
          BY <4>1, <4>3, <5>1 DEF ChainInv, ViewsLinked
        <5>3. e.id \in Nat /\ LastOf(r).id \in Nat
          BY <1>a, <4>1 DEF TypeOK, L!Event
        <5> QED BY <5>2, <5>3
      <4> QED BY <2>1, <2>6, <4>1, <4>2, <4>4
    <3>2. CASE work[r].op \in {"decide", "sweep"}
      <4>1. shown' = shown /\ Minted(i)
        BY <2>1, <2>7, <3>2 DEF Minted
      <4>2. \A e \in pending[r] : ~Names(e, i)
        BY <2>3, <3>2, Remains DEF RecordInv, OwnInv, Names
      <4> QED BY <2>1, <2>6, <4>1, <4>2 DEF CurrentInv
    <3> QED BY <2>3, <3>1, <3>2 DEF Ops
  <2>8. ASSUME NEW j \in Intents, j # i, Minted(j)'
        PROVE  shown'[j] = Unnamed \/ \A e \in events' : Names(e, j)' => e.id <= shown'[j]
    BY <2>4, <2>6, <2>8 DEF CurrentInv, Minted
  <2> QED BY <2>7, <2>8 DEF CurrentInv
<1>4. \/ shown' = shown /\ events' = events
      \/ \E j \in Intents : MoveUnnamed(j)
      \/ \E r \in Requests : Save(r)
  BY DEF EvidenceNext, evidenceVars, vars, Decide, Mint, Approve, Sweep, Move, Begin, Lock, AcquireLock,
         ReadOwnTail, ReadTail, Insert, Flush, GiveUp, Rollback, ReadIntent, ReadTrail, ReadEvents,
         ReadTransaction, VerifyChain, Reads
<1> QED BY <1>1, <1>2, <1>3, <1>4

-----------------------------------------------------------------------------
(* What a bundle reads.                                                    *)

\* How far a bundle has got shows in what it has left to read.
LEMMA LeftDiffer ==
  /\ <<"transaction", "chain">> # <<"events", "transaction", "chain">>
  /\ <<"chain">> # <<"events", "transaction", "chain">>
  /\ <<>> # <<"events", "transaction", "chain">>
  /\ <<"transaction", "chain">> \notin {<<"chain">>, <<>>}
  /\ <<"events", "transaction", "chain">> \notin {<<"chain">>, <<>>}
  OBVIOUS

LEMMA BundleStep ==
  ASSUME TypeOK, TypeOK', IdsUnique, WorkInv, RecordInv, ReaderInv, ShownInv, LeadInv,
         CurrentInv, BundleInv, [EvidenceNext]_evidenceVars, [L!Append]_events
  PROVE  BundleInv'
<1>c. ContentTyped
  BY DEF RecordInv
<1>b. \A e \in events : content'[e.id] = content[e.id]
  BY <1>c, CommittedStay
<1>l. reader.listed \subseteq events
  BY DEF ShownInv, Prefix
<1>n. CASE reader'.asks # "bundle"
  BY <1>n DEF BundleInv
<1>1. CASE reader' = reader
  <2> SUFFICES ASSUME reader.asks = "bundle" PROVE BundleInv'
    BY <1>1 DEF BundleInv
  <2>1. ASSUME reader.left = <<"events", "transaction", "chain">>
        PROVE  (\E d \in events : Leads(d, reader.chain) /\ content[d.id].intent = reader.intent)'
    <3>1. PICK x : x = reader.chain
      OBVIOUS
    <3>2. PICK d \in events : Leads(d, x) /\ content[d.id].intent = reader.intent
      BY <2>1, <3>1 DEF BundleInv
    <3>3. d \in events' /\ Leads(d, x)' /\ content'[d.id] = content[d.id]
      BY <1>c, <3>2, LeadStays
    <3> QED BY <1>1, <3>1, <3>2, <3>3
  <2>2. \A e \in reader.listed : Names(e, reader.intent)' <=> Names(e, reader.intent)
    BY <1>1, <1>b, <1>l DEF Names
  <2> QED BY <1>1, <2>1, <2>2 DEF BundleInv
<1>2. ASSUME NEW x \in Chains, ReadIntent(x) PROVE BundleInv'
  <2>1. PICK i \in Intents :
          /\ Matches(x) = {i}
          /\ reader' = [reader EXCEPT !.asks = "bundle", !.chain = x, !.left = Tail(BundleReads),
                                      !.intent = i, !.decision = row[i].decision]
    BY <1>2 DEF ReadIntent, Reads, TheOnly
  <2>2. Tail(BundleReads) = <<"events", "transaction", "chain">>
    BY DEF BundleReads
  <2>3. UNCHANGED <<events, row, content>>
    BY <1>2 DEF ReadIntent, Reads, vars
  <2>4. Recorded(i) /\ row[i].chain = x
    BY <2>1 DEF Matches
  <2>5. PICK d \in events : Leads(d, x)
    BY <2>4 DEF LeadInv
  <2>6. d.chain = x
    BY <2>5 DEF Leads, Decided, Trail
  <2>7. PICK j \in Intents : content[d.id].intent = j /\ Recorded(j) /\ d.chain = row[j].chain
    BY DEF RecordInv, TrailInv
  <2>8. j = i
    BY <2>1, <2>6, <2>7 DEF Matches
  <2>9. /\ reader'.left = <<"events", "transaction", "chain">>
        /\ reader'.chain = x /\ reader'.intent = i
    BY <2>1, <2>2 DEF ReaderInv
  <2>10. d \in events' /\ Leads(d, x)' /\ content'[d.id].intent = i
    BY <2>3, <2>5, <2>7, <2>8 DEF Leads, Decided, Trail
  <2> QED BY <2>9, <2>10, LeftDiffer DEF BundleInv
<1>3. ASSUME ReadEvents, reader'.asks = "bundle" PROVE BundleInv'
  <2>1. /\ reader' = [reader EXCEPT !.left = Tail(@), !.listed = Trail(reader.chain),
                                    !.policy = FirstDecided(Trail(reader.chain))]
        /\ reader.left # <<>> /\ Head(reader.left) = "events"
    BY <1>3 DEF ReadEvents, Due, Reads
  <2>2. /\ reader'.asks = reader.asks /\ reader'.left = Tail(reader.left)
        /\ reader'.intent = reader.intent
        /\ reader'.policy = FirstDecided(Trail(reader.chain))
    BY <2>1 DEF ReaderInv
  <2>3. reader.left = <<"events", "transaction", "chain">>
    <3>1. CASE reader.left = <<"transaction", "chain">>
      BY <2>1, <3>1
    <3>2. CASE reader.left = <<"chain">>
      BY <2>1, <3>2
    <3> QED BY <1>3, <2>1, <2>2, <3>1, <3>2 DEF ReaderInv, BundlePast
  <2>4. PICK x : x = reader.chain
    OBVIOUS
  <2>5. PICK d \in events : Leads(d, x) /\ content[d.id].intent = reader.intent
    BY <1>3, <2>2, <2>3, <2>4 DEF BundleInv
  <2>6. FirstDecided(Trail(x)) = content[d.id].intent
    BY <2>5, FirstIsLead
  <2>7. reader'.policy = reader'.intent
    BY <2>2, <2>4, <2>5, <2>6
  <2>8. reader'.left = <<"transaction", "chain">>
    BY <2>1, <2>2, <2>3, LeftAfter
  <2> QED BY <2>7, <2>8, LeftDiffer DEF BundleInv
<1>4. ASSUME ReadTransaction, Minted(reader.intent), reader'.asks = "bundle" PROVE BundleInv'
  <2>1. /\ reader' = [reader EXCEPT !.left = Tail(@), !.shown = shown[reader.intent]]
        /\ reader.left # <<>> /\ Head(reader.left) = "transaction"
        /\ events' = events /\ content' = content
    BY <1>4 DEF ReadTransaction, Due, Reads, vars
  <2>2. /\ reader'.asks = reader.asks /\ reader'.left = Tail(reader.left)
        /\ reader'.intent = reader.intent /\ reader'.policy = reader.policy
        /\ reader'.listed = reader.listed /\ reader'.shown = shown[reader.intent]
    BY <2>1 DEF ReaderInv
  <2>3. reader.left # <<"events", "transaction", "chain">>
    BY <2>1
  <2>4. reader.policy = reader.intent
    BY <1>4, <2>2, <2>3 DEF BundleInv
  <2>5. reader'.left = <<"chain">>
    BY <1>4, <2>1, <2>2, LeftAfter DEF ReaderInv, BundlePast
  <2>6. reader.intent \in Intents
    BY <1>4, <2>2 DEF ReaderInv, BundlePast
  <2>7. \/ reader'.shown = Unnamed
        \/ \A e \in reader'.listed : Names(e, reader.intent) => e.id <= reader'.shown
    BY <1>4, <1>l, <2>2, <2>6 DEF CurrentInv
  <2>8. \A e : Names(e, reader.intent)' <=> Names(e, reader.intent)
    BY <2>1, <2>2 DEF Names
  <2> QED BY <2>2, <2>4, <2>5, <2>7, <2>8, LeftDiffer DEF BundleInv
<1>6. ASSUME NEW a \in Agents, VerifyChain(a), reader'.asks = "bundle" PROVE BundleInv'
  <2>1. /\ reader' = [reader EXCEPT !.left = Tail(@), !.verified = L!Linked(Trail(reader.chain))]
        /\ reader.left # <<>> /\ Head(reader.left) = "chain"
        /\ events' = events /\ content' = content
    BY <1>6 DEF VerifyChain, Due, Reads, vars, Refused, Nothing
  <2>2. /\ reader'.asks = reader.asks /\ reader'.left = Tail(reader.left)
        /\ reader'.intent = reader.intent /\ reader'.policy = reader.policy
        /\ reader'.listed = reader.listed /\ reader'.shown = reader.shown
    BY <2>1 DEF ReaderInv
  <2>3. reader.left = <<"chain">> /\ reader'.left = <<>>
    BY <1>6, <2>1, <2>2, LeftAfter DEF ReaderInv, BundlePast
  <2>4. \A e : Names(e, reader.intent)' <=> Names(e, reader.intent)
    BY <2>1, <2>2 DEF Names
  <2>5. reader.policy = reader.intent
    BY <1>6, <2>2, <2>3, LeftDiffer DEF BundleInv
  <2>6. \/ reader.shown = Unnamed
        \/ \A e \in reader.listed : Names(e, reader.intent) => e.id <= reader.shown
    BY <1>6, <2>2, <2>3 DEF BundleInv
  <2> QED BY <2>2, <2>3, <2>4, <2>5, <2>6, LeftDiffer DEF BundleInv
<1>7. ASSUME NEW a \in Agents, NEW x \in Chains, ReadTrail(a, x) PROVE reader'.asks # "bundle"
  BY <1>7 DEF ReadTrail, Reads, ReaderInv
<1>8. ASSUME ReadTransaction, ~Minted(reader.intent) PROVE reader'.asks # "bundle"
  BY <1>8 DEF ReadTransaction, Reads, Refused, Nothing
<1>9. \/ reader' = reader
      \/ \E x \in Chains : ReadIntent(x) \/ \E a \in Agents : ReadTrail(a, x)
      \/ ReadEvents \/ ReadTransaction \/ \E a \in Agents : VerifyChain(a)
  BY DEF EvidenceNext, evidenceVars, Decide, Mint, Approve, Sweep, Move, Begin, Lock, ReadOwnTail,
         Insert, Save, GiveUp, MoveUnnamed
<1> QED BY <1>n, <1>1, <1>2, <1>3, <1>4, <1>6, <1>7, <1>8, <1>9

\* On Postgres, for any number of requests, agents, intents and events, whatever
\* commits between the queries of a bundle: no event it lists is ahead of the
\* state it shows beside it, and its policy_results are those of its own intent
\* (proof_bundle.collect_proof_bundle and its causal provenance).
THEOREM BundlesCohere == ASSUME Locked PROVE EvidenceSpec => []BundleCoherent
<1> DEFINE Base == ChainInv /\ LastInv /\ WorkInv /\ ReaderInv /\ ShownInv
           I == Base /\ RecordInv /\ LeadInv /\ CurrentInv /\ BundleInv
<1>1. EvidenceInit => I
  <2> SUFFICES ASSUME EvidenceInit PROVE I
    OBVIOUS
  <2>1. ChainInv /\ LastInv
    BY AuditInit DEF EvidenceInit, LastInv, HasLast, Init, ChainInv
  <2>2. ReaderInv /\ ShownInv /\ BundleInv
    BY DEF EvidenceInit, ReaderInv, BundlePast, Nothing, ShownInv, Served, Prefix, BundleInv
  <2>3. LeadInv /\ CurrentInv
    BY DEF EvidenceInit, LeadInv, CurrentInv, Recorded, Minted
  <2> QED BY <2>1, <2>2, <2>3, WorkInit, RecordInit
<1>2. I /\ [EvidenceNext]_evidenceVars => I'
  <2> SUFFICES ASSUME I, [EvidenceNext]_evidenceVars PROVE I'
    OBVIOUS
  <2>1. [Next]_vars
    BY EvidenceStepsAppend
  <2>2. ChainInv' /\ [L!Append]_events
    BY <2>1, AuditStep, StepAppends
  <2>3. LastInv' /\ WorkInv' /\ ReaderInv' /\ ShownInv'
    BY <2>1, <2>2, WorkStep, LastStep, ReaderStep, ShownStep
  <2>4. TypeOK /\ TypeOK' /\ IdsUnique /\ HasLast
    BY <2>2 DEF ChainInv, LastInv
  <2>5. RecordInv'
    BY <2>4, RecordStep
  <2>6. LeadInv'
    BY <2>2, <2>4, LeadStep
  <2>7. CurrentInv'
    BY <2>4, CurrentStep
  <2>8. BundleInv'
    BY <2>2, <2>4, BundleStep
  <2> QED BY <2>2, <2>3, <2>5, <2>6, <2>7, <2>8
<1>3. I => BundleCoherent
  <2> SUFFICES ASSUME I, BundleServed PROVE StateNotBehind /\ OwnPolicyResults
    BY DEF BundleCoherent, StateNotBehind, OwnPolicyResults
  <2>1. reader.asks = "bundle" /\ reader.left = <<>>
    BY DEF BundleServed, Served
  <2>2. reader.policy = reader.intent
    BY <2>1, LeftDiffer DEF BundleInv
  <2>3. \/ reader.shown = Unnamed
        \/ \A e \in reader.listed : Names(e, reader.intent) => e.id <= reader.shown
    BY <2>1 DEF BundleInv
  <2> QED BY <2>2, <2>3 DEF StateNotBehind, OwnPolicyResults, Moves, Names
<1> QED BY <1>1, <1>2, <1>3, PTL DEF EvidenceSpec
=============================================================================
