----------------------- MODULE SuggestionBatchesProofs -----------------------
(***************************************************************************)
(* Proofs about SuggestionBatches, for any number of calls and items, any  *)
(* keys, requests, provider modes and batch sizes.                         *)
(*                                                                         *)
(* The chunks a call has yet to settle are disjoint, and a call has stored *)
(* one row for each of its items outside them and none for the others.     *)
(* Cutting a chunk in halves keeps both facts, settling one moves it from  *)
(* the second kind of items to the first.                                  *)
(***************************************************************************)
EXTENDS SuggestionBatches, TLAPS, FiniteSetTheorems

Disjoint(Q) == \A S, T \in Q : S # T => S \cap T = {}

CallOK(c) ==
  /\ Disjoint(queue[c])
  /\ \A S \in queue[c] : S \subseteq call[c].items
  /\ call[c].pc # "asking" => queue[c] = {}
  /\ call[c].pc = "new" => \A i \in Items : rows[c][i] = 0
  /\ call[c].pc \in {"asking", "answered"} =>
       \A i \in Items : rows[c][i] = IF i \in Settled(c) THEN 1 ELSE 0

CallsOK == \A c \in Calls : CallOK(c)

-----------------------------------------------------------------------------
(* Chunks. *)

\* _chunks cuts a list into disjoint pieces and loses none of it.
LEMMA ChunksPartition ==
  ASSUME NEW S
  PROVE  /\ UNION Chunks(S) = S
         /\ Disjoint(Chunks(S))
         /\ Chunks(S) \subseteq SUBSET S
<1> DEFINE n(i) == (Rank(S, i) - 1) \div (IF size < 1 THEN 1 ELSE size)
           chunk(i) == {j \in S : n(j) = n(i)}
<1>1. Chunks(S) = {chunk(i) : i \in S}
  BY DEF Chunks
<1> HIDE DEF n
<1>2. \A i \in S : i \in chunk(i) /\ chunk(i) \subseteq S
  OBVIOUS
<1>3. \A i, j, k \in S : k \in chunk(i) /\ k \in chunk(j) => chunk(i) = chunk(j)
  OBVIOUS
<1> HIDE DEF chunk
<1>4. UNION Chunks(S) = S
  BY <1>1, <1>2
<1>5. Disjoint(Chunks(S))
  BY <1>1, <1>2, <1>3 DEF Disjoint
<1>6. Chunks(S) \subseteq SUBSET S
  BY <1>1, <1>2
<1> QED
  BY <1>4, <1>5, <1>6

\* So does cutting one in halves.
LEMMA HalvesPartition ==
  ASSUME NEW S
  PROVE  /\ UNION Halves(S) = S
         /\ Disjoint(Halves(S))
         /\ Halves(S) \subseteq SUBSET S
<1>1. FirstHalf(S) \subseteq S
  BY DEF FirstHalf
<1> QED
  BY <1>1 DEF Halves, Disjoint

\* One of several disjoint chunks is taken away: the others keep what they have.
LEMMA TakeChunk ==
  ASSUME NEW Q, Disjoint(Q), NEW S \in Q
  PROVE  /\ UNION (Q \ {S}) = (UNION Q) \ S
         /\ Disjoint(Q \ {S})
  BY DEF Disjoint

\* It is replaced by its halves: nothing is lost and all stay disjoint.
LEMMA CutChunk ==
  ASSUME NEW Q, Disjoint(Q), NEW S \in Q
  PROVE  /\ UNION ((Q \ {S}) \cup Halves(S)) = UNION Q
         /\ Disjoint((Q \ {S}) \cup Halves(S))
<1>1. UNION Halves(S) = S /\ Disjoint(Halves(S)) /\ Halves(S) \subseteq SUBSET S
  BY HalvesPartition
<1>2. \A T \in Q \ {S}, H \in Halves(S) : T \cap H = {}
  BY <1>1 DEF Disjoint
<1>3. UNION ((Q \ {S}) \cup Halves(S)) = UNION Q
  BY <1>1
<1>4. Disjoint((Q \ {S}) \cup Halves(S))
  BY <1>1, <1>2 DEF Disjoint
<1> QED
  BY <1>3, <1>4

-----------------------------------------------------------------------------
(* The parser and the steps. *)

\* The parser says ok, path_like or a recoverable code: nothing else is looked at.
LEMMA CodesKnown ==
  \A m \in Modes : Codes[m] \subseteq RecoverableCodes \cup {"ok", "path_like"}
<1> SUFFICES ASSUME NEW m \in Modes, NEW reply \in Reply
             PROVE  Parsed(m, reply) \in RecoverableCodes \cup {"ok", "path_like"}
  BY DEF Codes
<1> DEFINE codes == <<JsonCode(m)[reply.around], RootCode(m)[reply.root], FieldCode[reply.fields],
                      IF reply.path THEN "path_like" ELSE "ok">>
           fails(k) == codes[k] # "ok"
           first(k) == fails(k) /\ \A j \in 1..(k - 1) : ~fails(j)
<1>1. JsonCode(m)[reply.around] \in RecoverableCodes \cup {"ok"}
  BY DEF Reply, JsonCode, RecoverableCodes
<1>2. RootCode(m)[reply.root] \in RecoverableCodes \cup {"ok"}
  BY DEF Reply, RootCode, RecoverableCodes
<1>3. FieldCode[reply.fields] \in RecoverableCodes \cup {"ok"}
  BY DEF Reply, FieldCode, RecoverableCodes
<1>4. \A k \in 1..4 : codes[k] \in RecoverableCodes \cup {"ok", "path_like"}
  BY <1>1, <1>2, <1>3
<1>5. Parsed(m, reply) = IF \E k \in 1..4 : fails(k)
                        THEN codes[CHOOSE k \in 1..4 : first(k)] ELSE "ok"
  BY DEF Parsed
<1> HIDE DEF codes
<1>6. (\E k \in 1..4 : fails(k)) => \E k \in 1..4 : first(k)
  <2>1. fails(1) => first(1)
    OBVIOUS
  <2>2. ~fails(1) /\ fails(2) => first(2)
    OBVIOUS
  <2>3. ~fails(1) /\ ~fails(2) /\ fails(3) => first(3)
    OBVIOUS
  <2>4. ~fails(1) /\ ~fails(2) /\ ~fails(3) /\ fails(4) => first(4)
    OBVIOUS
  <2> HIDE DEF fails, first
  <2> QED
    BY <2>1, <2>2, <2>3, <2>4
<1> HIDE DEF fails, first
<1> QED
  BY <1>4, <1>5, <1>6

\* A chunk that holds a culprit and cannot be cut is that culprit.
LEMMA LastCulprit ==
  ASSUME NEW S \in SUBSET Items, ~(Cardinality(S) > 1), S \cap garbles # {}
  PROVE  S \subseteq garbles
<1>1. IsFiniteSet(S)
  <2>1. IsFiniteSet(Items)
    BY FS_Interval, ConstantsAssumption DEF Items, ConstantsAssumption
  <2> QED
    BY <2>1, FS_Subset
<1>2. Cardinality(S) \in Nat /\ Cardinality(S) # 0
  BY <1>1, FS_CardinalityType, FS_EmptySet
<1>3. PICK i : S = {i}
  BY <1>1, <1>2, FS_Singleton
<1> QED
  BY <1>3

\* What a step does, whatever the provider did to bring it about.
LEMMA StepCases ==
  ASSUME TypeOK, Next
  PROVE  \E c \in Calls :
           \/ Refuse(c)
           \/ \E items \in Requests, partial \in BOOLEAN : Begin(c, items, partial)
           \/ Fail(c)
           \/ \E S \in queue[c] :
                \/ Judge(c, S)
                \/ Bisect(c, S)
                \/ GiveUp(c, S, "invalid")
                \/ S \subseteq garbles /\ GiveUp(c, S, "unreadable")
<1>1. ASSUME NEW c \in Calls, NEW S \in queue[c], NEW code \in Codes[mode], Received(c, S, code)
      PROVE  \/ Fail(c) \/ Judge(c, S) \/ Bisect(c, S) \/ GiveUp(c, S, "invalid")
             \/ S \subseteq garbles /\ GiveUp(c, S, "unreadable")
  <2>1. code \in RecoverableCodes \cup {"ok", "path_like"}
    BY CodesKnown DEF TypeOK
  <2>2. S \in SUBSET Items
    BY DEF TypeOK
  <2>3. code \in RecoverableCodes => code # "ok" /\ code # "path_like"
    BY DEF RecoverableCodes
  <2>4. CASE code = "path_like"
    BY <1>1, <2>3, <2>4 DEF Received
  <2>5. CASE code = "ok"
    BY <1>1, <2>3, <2>5 DEF Received
  <2>6. CASE code \in RecoverableCodes
    <3>1. S \cap garbles # {}
      BY <1>1, <2>3, <2>6 DEF Received
    <3>2. ~(Cardinality(S) > 1) => S \subseteq garbles
      BY <2>2, <3>1, LastCulprit
    <3> QED
      BY <1>1, <2>3, <2>6, <3>2 DEF Received
  <2> QED
    BY <2>1, <2>4, <2>5, <2>6
<1> QED
  BY <1>1 DEF Next, TimeOut, ProviderError

-----------------------------------------------------------------------------
(* Types. *)

Record == [pc : {"new", "asking", "answered", "raised"},
           items : SUBSET Items, misses : SUBSET Items, partial : BOOLEAN]

\* A step that only moves a call on.
LEMMA MoveOn ==
  ASSUME TypeOK, NEW c \in Calls, NEW p \in {"new", "asking", "answered", "raised"},
         call' = [call EXCEPT ![c].pc = p]
  PROVE  /\ call' \in [Calls -> Record]
         /\ call'[c].pc = p /\ call'[c].items = call[c].items
         /\ \A d \in Calls \ {c} : call'[d] = call[d]
<1>1. call \in [Calls -> Record]
  BY DEF TypeOK, Record
<1>2. call[c] \in Record
  BY <1>1
<1> DEFINE next == [call[c] EXCEPT !.pc = p]
<1>3. next \in Record /\ next.pc = p /\ next.items = call[c].items
  BY <1>2 DEF Record
<1>4. call' = [call EXCEPT ![c] = next]
  OBVIOUS
<1> HIDE DEF next
<1> QED
  BY <1>1, <1>3, <1>4

LEMMA ProceedTypes ==
  ASSUME TypeOK, NEW c \in Calls, NEW left \in SUBSET SUBSET Items, Proceed(c, left)
  PROVE  /\ call' \in [Calls -> Record]
         /\ queue' \in [Calls -> SUBSET SUBSET Items]
         /\ asked' \in [Calls -> Nat]
<1> DEFINE p == IF left = {} THEN "answered" ELSE "asking"
<1>1. call' = [call EXCEPT ![c].pc = p] /\ p \in {"new", "asking", "answered", "raised"}
  BY DEF Proceed
<1> HIDE DEF p
<1>2. call' \in [Calls -> Record]
  BY <1>1, MoveOn
<1>3. queue' \in [Calls -> SUBSET SUBSET Items] /\ asked' \in [Calls -> Nat]
  BY DEF Proceed, TypeOK
<1> QED
  BY <1>2, <1>3

LEMMA TypeStep == TypeOK /\ [Next]_vars => TypeOK'
<1> SUFFICES ASSUME TypeOK, [Next]_vars PROVE TypeOK'
  OBVIOUS
<1> USE DEF TypeOK, Outcomes, Record
<1>1. ASSUME NEW c \in Calls, Refuse(c) PROVE TypeOK'
  BY <1>1, MoveOn DEF Refuse
<1>2. ASSUME NEW c \in Calls, NEW items \in Requests, NEW partial \in BOOLEAN,
             Begin(c, items, partial)
      PROVE  TypeOK'
  <2>1. items \in SUBSET Items
    BY ConstantsAssumption DEF ConstantsAssumption
  <2> DEFINE misses == items \ {i \in items : KeyOf[i] \in cache}
  <2>2. Chunks(misses) \subseteq SUBSET Items
    BY <2>1, ChunksPartition
  <2>3. call' \in [Calls -> Record]
    BY <1>2, <2>1 DEF Begin, Record
  <2>4. queue' \in [Calls -> SUBSET SUBSET Items] /\ asked' \in [Calls -> Nat]
    BY <1>2, <2>2 DEF Begin
  <2>5. rows' \in [Calls -> [Items -> Nat]]
    BY <1>2 DEF Begin, Store
  <2>6. outcome' \in [Calls -> [Items -> Outcomes]]
    BY <1>2 DEF Begin, Store
  <2> QED
    BY <1>2, <2>3, <2>4, <2>5, <2>6 DEF Begin
<1>3. ASSUME NEW c \in Calls, Fail(c) PROVE TypeOK'
  BY <1>3, MoveOn DEF Fail
<1>4. ASSUME NEW c \in Calls, NEW S \in queue[c], Judge(c, S) PROVE TypeOK'
  <2>1. {KeyOf[i] : i \in S} \subseteq Keys
    BY ConstantsAssumption DEF ConstantsAssumption
  <2>2. S \in SUBSET Items /\ queue[c] \ {S} \in SUBSET SUBSET Items
    OBVIOUS
  <2>3. /\ call' \in [Calls -> Record]
        /\ queue' \in [Calls -> SUBSET SUBSET Items]
        /\ asked' \in [Calls -> Nat]
    BY <1>4, <2>2, ProceedTypes DEF Judge, SaveCache
  <2>4. rows' \in [Calls -> [Items -> Nat]] /\ outcome' \in [Calls -> [Items -> Outcomes]]
    BY <1>4, <2>2 DEF Judge, SaveCache, Store
  <2> QED
    BY <1>4, <2>1, <2>3, <2>4 DEF Judge, SaveCache
<1>5. ASSUME NEW c \in Calls, NEW S \in queue[c], Bisect(c, S) PROVE TypeOK'
  <2>1. Halves(S) \subseteq SUBSET Items
    BY HalvesPartition
  <2>2. (queue[c] \ {S}) \cup Halves(S) \in SUBSET SUBSET Items
    BY <2>1
  <2>3. /\ call' \in [Calls -> Record]
        /\ queue' \in [Calls -> SUBSET SUBSET Items]
        /\ asked' \in [Calls -> Nat]
    BY <1>5, <2>2, ProceedTypes DEF Bisect
  <2> QED
    BY <1>5, <2>3 DEF Bisect
<1>6. ASSUME NEW c \in Calls, NEW S \in queue[c], NEW why \in {"invalid", "unreadable"},
             GiveUp(c, S, why)
      PROVE  TypeOK'
  <2>1. S \in SUBSET Items /\ queue[c] \ {S} \in SUBSET SUBSET Items
    OBVIOUS
  <2>2. /\ call' \in [Calls -> Record]
        /\ queue' \in [Calls -> SUBSET SUBSET Items]
        /\ asked' \in [Calls -> Nat]
    BY <1>6, <2>1, ProceedTypes DEF GiveUp
  <2>3. rows' \in [Calls -> [Items -> Nat]] /\ outcome' \in [Calls -> [Items -> Outcomes]]
    BY <1>6, <2>1 DEF GiveUp, Store
  <2> QED
    BY <1>6, <2>2, <2>3 DEF GiveUp
<1>7. ASSUME UNCHANGED vars PROVE TypeOK'
  BY <1>7 DEF vars
<1> QED
  BY <1>1, <1>2, <1>3, <1>4, <1>5, <1>6, <1>7, StepCases

\* The states of generate_llm_suggestions, its rows and its cache.
THEOREM TypeCorrect == Spec => []TypeOK
<1>1. Init => TypeOK
  BY DEF Init, TypeOK, Outcomes
<1> QED
  BY <1>1, TypeStep, PTL DEF Spec

-----------------------------------------------------------------------------
(* One row for each item. *)

\* A call settles a chunk of its queue.
LEMMA SettleStep ==
  ASSUME TypeOK, NEW c \in Calls, CallOK(c), NEW S \in queue[c],
         rows' = [rows EXCEPT ![c] = [i \in Items |-> @[i] + IF i \in S THEN 1 ELSE 0]],
         Proceed(c, queue[c] \ {S})
  PROVE  CallOK(c)'
<1>1. Disjoint(queue[c]) /\ call[c].pc = "asking"
  BY DEF CallOK
<1>2. /\ UNION (queue[c] \ {S}) = (UNION queue[c]) \ S
      /\ Disjoint(queue[c] \ {S})
  BY <1>1, TakeChunk
<1>3. /\ queue'[c] = queue[c] \ {S}
      /\ call'[c].items = call[c].items
      /\ call'[c].pc \in {"asking", "answered"}
      /\ call'[c].pc # "asking" => queue'[c] = {}
  BY DEF Proceed, TypeOK
<1>4. Settled(c)' = Settled(c) \cup S
  BY <1>2, <1>3 DEF Settled, CallOK
<1>5. S \cap Settled(c) = {}
  BY DEF Settled
<1>6. \A i \in Items : rows[c][i] = IF i \in Settled(c) THEN 1 ELSE 0
  BY <1>1 DEF CallOK
<1>7. \A i \in Items : rows'[c][i] = IF i \in Settled(c)' THEN 1 ELSE 0
  BY <1>4, <1>5, <1>6 DEF TypeOK
<1> QED
  BY <1>2, <1>3, <1>7 DEF CallOK

\* A call looks its items up in the cache and queues the others.
LEMMA BeginStep ==
  ASSUME TypeOK, NEW c \in Calls, CallOK(c),
         NEW items \in SUBSET Items, NEW partial, Begin(c, items, partial)
  PROVE  CallOK(c)'
<1> DEFINE hits == {i \in items : KeyOf[i] \in cache}
           misses == items \ hits
<1>1. /\ UNION Chunks(misses) = misses
      /\ Disjoint(Chunks(misses))
      /\ Chunks(misses) \subseteq SUBSET misses
  BY ChunksPartition
<1>2. \A i \in Items : rows[c][i] = 0
  BY DEF CallOK, Begin
<1>3. /\ queue'[c] = Chunks(misses)
      /\ call'[c].items = items
      /\ call'[c].pc = IF misses = {} THEN "answered" ELSE "asking"
      /\ \A i \in Items : rows'[c][i] = rows[c][i] + IF i \in hits THEN 1 ELSE 0
  BY DEF Begin, Store, TypeOK
<1>4. Settled(c)' = hits
  BY <1>1, <1>3 DEF Settled
<1>5. \A i \in Items : rows'[c][i] = IF i \in Settled(c)' THEN 1 ELSE 0
  BY <1>2, <1>3, <1>4
<1>6. misses = {} => Chunks(misses) = {}
  BY DEF Chunks
<1> QED
  BY <1>1, <1>3, <1>5, <1>6 DEF CallOK

LEMMA CallsStep == TypeOK /\ CallsOK /\ [Next]_vars => CallsOK'
<1> SUFFICES ASSUME TypeOK, CallsOK, [Next]_vars PROVE CallsOK'
  OBVIOUS
<1>1. ASSUME NEW d \in Calls,
             call'[d] = call[d], queue'[d] = queue[d], rows'[d] = rows[d]
      PROVE  CallOK(d)'
  BY <1>1 DEF CallsOK, CallOK, Settled
<1>2. ASSUME NEW c \in Calls, CallOK(c)',
             \A d \in Calls \ {c} :
               call'[d] = call[d] /\ queue'[d] = queue[d] /\ rows'[d] = rows[d]
      PROVE  CallsOK'
  BY <1>1, <1>2 DEF CallsOK
<1>3. ASSUME NEW c \in Calls, Refuse(c) PROVE CallsOK'
  <2>1. call'[c].pc = "raised" /\ queue'[c] = queue[c] /\ queue[c] = {}
    BY <1>3, MoveOn DEF Refuse, CallsOK, CallOK
  <2>2. CallOK(c)'
    BY <2>1 DEF CallOK, Disjoint
  <2> QED
    BY <1>2, <1>3, <2>2 DEF Refuse, TypeOK
<1>4. ASSUME NEW c \in Calls, NEW items \in Requests, NEW partial \in BOOLEAN,
             Begin(c, items, partial)
      PROVE  CallsOK'
  <2>1. CallOK(c)'
    BY <1>4, BeginStep, ConstantsAssumption DEF ConstantsAssumption, CallsOK
  <2> QED
    BY <1>2, <1>4, <2>1 DEF Begin, Store, TypeOK
<1>5. ASSUME NEW c \in Calls, Fail(c) PROVE CallsOK'
  <2>1. CallOK(c)'
    BY <1>5 DEF Fail, CallsOK, CallOK, Disjoint, TypeOK
  <2> QED
    BY <1>2, <1>5, <2>1 DEF Fail, TypeOK
<1>6. ASSUME NEW c \in Calls, NEW S \in queue[c], Judge(c, S) PROVE CallsOK'
  <2>1. CallOK(c)'
    BY <1>6, SettleStep DEF Judge, SaveCache, Store, CallsOK
  <2> QED
    BY <1>2, <1>6, <2>1 DEF Judge, SaveCache, Store, Proceed, TypeOK
<1>7. ASSUME NEW c \in Calls, NEW S \in queue[c], Bisect(c, S) PROVE CallsOK'
  <2>1. Disjoint(queue[c]) /\ call[c].pc = "asking"
    BY DEF CallsOK, CallOK
  <2>2. /\ UNION ((queue[c] \ {S}) \cup Halves(S)) = UNION queue[c]
        /\ Disjoint((queue[c] \ {S}) \cup Halves(S))
        /\ Halves(S) \subseteq SUBSET S
    BY <2>1, CutChunk, HalvesPartition
  <2>3. /\ queue'[c] = (queue[c] \ {S}) \cup Halves(S)
        /\ call'[c].pc \in {"asking", "answered"}
        /\ call'[c].pc # "asking" => queue'[c] = {}
        /\ call'[c].items = call[c].items
        /\ rows' = rows
    BY <1>7 DEF Bisect, Proceed, TypeOK
  <2>4. Settled(c)' = Settled(c)
    BY <2>2, <2>3 DEF Settled
  <2>5. CallOK(c)'
    BY <2>1, <2>2, <2>3, <2>4 DEF CallsOK, CallOK
  <2> QED
    BY <1>2, <1>7, <2>5 DEF Bisect, Proceed, TypeOK
<1>8. ASSUME NEW c \in Calls, NEW S \in queue[c], NEW why, GiveUp(c, S, why)
      PROVE  CallsOK'
  <2>1. CallOK(c)'
    BY <1>8, SettleStep DEF GiveUp, Store, CallsOK
  <2> QED
    BY <1>2, <1>8, <2>1 DEF GiveUp, Store, Proceed, TypeOK
<1>9. ASSUME UNCHANGED vars PROVE CallsOK'
  BY <1>1, <1>9 DEF vars, CallsOK
<1> QED
  BY <1>3, <1>4, <1>5, <1>6, <1>7, <1>8, <1>9, StepCases

\* However chunks are cut and settled, whatever the provider answers, a call that
\* is answered has stored exactly one row for each of its items.
THEOREM RowsCorrect == Spec => []EachItemOnce
<1>1. Init => CallsOK
  BY DEF Init, CallsOK, CallOK, Disjoint
<1>2. CallsOK => EachItemOnce
  BY DEF CallsOK, CallOK, EachItemOnce, Settled
<1> QED
  BY <1>1, <1>2, TypeCorrect, CallsStep, PTL DEF Spec

-----------------------------------------------------------------------------
(* Only what garbles, or is left out, has a recoverable code. *)

LEMMA CulpritsStep == TypeOK /\ OnlyCulprits /\ [Next]_vars => OnlyCulprits'
<1> SUFFICES ASSUME TypeOK, OnlyCulprits, [Next]_vars PROVE OnlyCulprits'
  OBVIOUS
<1> USE DEF OnlyCulprits
<1>1. ASSUME NEW c \in Calls, Refuse(c) \/ Fail(c) PROVE OnlyCulprits'
  BY <1>1 DEF Refuse, Fail
<1>2. ASSUME NEW c \in Calls, NEW items \in Requests, NEW partial \in BOOLEAN,
             Begin(c, items, partial)
      PROVE  OnlyCulprits'
  <2> DEFINE hits == {i \in items : KeyOf[i] \in cache}
  <2>1. PICK said \in [hits -> {"valid", "invalid"}] :
          Store(c, said) /\ garbles' = garbles
    BY <1>2 DEF Begin
  <2>2. \A i \in hits : said[i] # "unreadable" /\ said[i] # "left_out"
    BY <2>1
  <2>3. \A d \in Calls, i \in Items :
          outcome'[d][i] = IF d = c /\ i \in hits THEN said[i] ELSE outcome[d][i]
    BY <2>1 DEF Store, TypeOK
  <2> QED
    BY <2>1, <2>2, <2>3
<1>3. ASSUME NEW c \in Calls, NEW S \in queue[c], Judge(c, S) PROVE OnlyCulprits'
  <2>1. PICK said \in [S -> {"valid", "invalid", "left_out"}] :
          Store(c, said) /\ garbles' = garbles
    BY <1>3 DEF Judge
  <2>2. \A i \in S : said[i] # "unreadable"
    BY <2>1
  <2>3. \A d \in Calls, i \in Items :
          outcome'[d][i] = IF d = c /\ i \in S THEN said[i] ELSE outcome[d][i]
    BY <2>1 DEF Store, TypeOK
  <2> QED
    BY <2>1, <2>2, <2>3
<1>4. ASSUME NEW c \in Calls, NEW S \in queue[c], Bisect(c, S) PROVE OnlyCulprits'
  BY <1>4 DEF Bisect
<1>5. ASSUME NEW c \in Calls, NEW S \in queue[c], GiveUp(c, S, "invalid") PROVE OnlyCulprits'
  BY <1>5 DEF GiveUp, Store, TypeOK
<1>6. ASSUME NEW c \in Calls, NEW S \in queue[c],
             S \subseteq garbles, GiveUp(c, S, "unreadable")
      PROVE  OnlyCulprits'
  BY <1>6 DEF GiveUp, Store, TypeOK
<1>7. ASSUME UNCHANGED vars PROVE OnlyCulprits'
  BY <1>7 DEF vars
<1> QED
  BY <1>1, <1>2, <1>3, <1>4, <1>5, <1>6, <1>7, StepCases

\* In every mode, for every batch size and whatever calls run beside it, an item
\* is recorded with a recoverable code only if a request for it alone came back
\* garbled, or if a reply that could be read leaves it out.
THEOREM CulpritsIsolated == Spec => []OnlyCulprits
<1>1. Init => OnlyCulprits
  BY DEF Init, OnlyCulprits
<1> QED
  BY <1>1, TypeCorrect, CulpritsStep, PTL DEF Spec

-----------------------------------------------------------------------------
(* The cache. *)

Judged == {i \in Items : \E c \in Calls : outcome[c][i] = "valid"}

\* What is valid has its row: nothing valid is ever judged again.
ValidHasRow == \A c \in Calls, i \in Items : outcome[c][i] = "valid" => rows[c][i] # 0

\* An item of a chunk that is asked for has no row yet.
LEMMA QueuedHasNoRow ==
  ASSUME TypeOK, CallsOK, NEW c \in Calls, NEW S \in queue[c], NEW i \in S
  PROVE  i \in Items /\ rows[c][i] = 0
<1>1. call[c].pc = "asking" /\ i \notin Settled(c)
  BY DEF CallsOK, CallOK, Settled
<1>2. i \in Items
  BY DEF TypeOK
<1> QED
  BY <1>1, <1>2 DEF CallsOK, CallOK

\* A call that begins has no row at all.
LEMMA NewHasNoRow ==
  ASSUME CallsOK, NEW c \in Calls, call[c].pc = "new"
  PROVE  \A i \in Items : rows[c][i] = 0
  BY DEF CallsOK, CallOK

LEMMA ValidStep == TypeOK /\ CallsOK /\ ValidHasRow /\ [Next]_vars => ValidHasRow'
<1> SUFFICES ASSUME TypeOK, CallsOK, ValidHasRow, [Next]_vars PROVE ValidHasRow'
  OBVIOUS
<1>2. ASSUME NEW c \in Calls, Refuse(c) \/ Fail(c) PROVE ValidHasRow'
  BY <1>2 DEF Refuse, Fail, ValidHasRow
<1>3. ASSUME NEW c \in Calls, NEW items \in Requests, NEW partial \in BOOLEAN,
             Begin(c, items, partial)
      PROVE  ValidHasRow'
  BY <1>3 DEF Begin, Store, ValidHasRow, TypeOK
<1>4. ASSUME NEW c \in Calls, NEW S \in queue[c], Judge(c, S) PROVE ValidHasRow'
  BY <1>4 DEF Judge, SaveCache, Store, ValidHasRow, TypeOK
<1>5. ASSUME NEW c \in Calls, NEW S \in queue[c], Bisect(c, S) PROVE ValidHasRow'
  BY <1>5 DEF Bisect, ValidHasRow
<1>6. ASSUME NEW c \in Calls, NEW S \in queue[c], NEW why \in {"invalid", "unreadable"},
             GiveUp(c, S, why)
      PROVE  ValidHasRow'
  BY <1>6 DEF GiveUp, Store, ValidHasRow, TypeOK
<1>7. ASSUME UNCHANGED vars PROVE ValidHasRow'
  BY <1>7 DEF vars, ValidHasRow
<1> QED
  BY <1>2, <1>3, <1>4, <1>5, <1>6, <1>7, StepCases

LEMMA CacheStep ==
  TypeOK /\ CallsOK /\ ValidHasRow /\ CacheIsJudged /\ [Next]_vars => CacheIsJudged'
<1> SUFFICES ASSUME TypeOK, CallsOK, ValidHasRow, CacheIsJudged, [Next]_vars
             PROVE  CacheIsJudged'
  OBVIOUS
<1>1. cache = {KeyOf[i] : i \in Judged}
  BY DEF CacheIsJudged, Judged
<1>2. cache' = {KeyOf[i] : i \in Judged'} => CacheIsJudged'
  BY DEF CacheIsJudged, Judged
<1>3. ASSUME NEW c \in Calls, Refuse(c) \/ Fail(c) PROVE CacheIsJudged'
  BY <1>1, <1>2, <1>3 DEF Refuse, Fail, Judged
<1>4. ASSUME NEW c \in Calls, NEW items \in Requests, NEW partial \in BOOLEAN,
             Begin(c, items, partial)
      PROVE  CacheIsJudged'
  <2> DEFINE hits == {i \in items : KeyOf[i] \in cache}
  <2>1. items \in SUBSET Items
    BY ConstantsAssumption DEF ConstantsAssumption
  <2>2. PICK said \in [hits -> {"valid", "invalid"}] : Store(c, said)
    BY <1>4 DEF Begin
  <2> DEFINE fits == {i \in hits : said[i] = "valid"}
  <2>3. \A i \in Items : outcome[c][i] # "valid"
    BY <1>4, NewHasNoRow DEF Begin, ValidHasRow
  <2>4. \A d \in Calls, i \in Items :
          outcome'[d][i] = "valid" <=> outcome[d][i] = "valid" \/ (d = c /\ i \in fits)
    BY <2>1, <2>2, <2>3 DEF Store, TypeOK
  <2>5. Judged' = Judged \cup fits
    BY <2>1, <2>4 DEF Judged
  <2>6. cache' = cache /\ \A i \in fits : KeyOf[i] \in cache
    BY <1>4 DEF Begin
  <2> QED
    BY <1>1, <1>2, <2>5, <2>6
<1>5. ASSUME NEW c \in Calls, NEW S \in queue[c], Judge(c, S) PROVE CacheIsJudged'
  <2>1. PICK said \in [S -> {"valid", "invalid", "left_out"}] :
          /\ Store(c, said)
          /\ cache' = cache \cup {KeyOf[i] : i \in {j \in S : said[j] = "valid"}}
    BY <1>5 DEF Judge, SaveCache
  <2> DEFINE fits == {i \in S : said[i] = "valid"}
  <2>2. \A i \in S : i \in Items /\ outcome[c][i] # "valid"
    BY QueuedHasNoRow DEF ValidHasRow
  <2>3. \A d \in Calls, i \in Items :
          outcome'[d][i] = "valid" <=> outcome[d][i] = "valid" \/ (d = c /\ i \in fits)
    BY <2>1, <2>2 DEF Store, TypeOK
  <2>4. Judged' = Judged \cup fits
    BY <2>2, <2>3 DEF Judged
  <2> QED
    BY <1>1, <1>2, <2>1, <2>4
<1>6. ASSUME NEW c \in Calls, NEW S \in queue[c], Bisect(c, S) PROVE CacheIsJudged'
  BY <1>1, <1>2, <1>6 DEF Bisect, Judged
<1>7. ASSUME NEW c \in Calls, NEW S \in queue[c], NEW why \in {"invalid", "unreadable"},
             GiveUp(c, S, why)
      PROVE  CacheIsJudged'
  <2>1. \A i \in S : i \in Items /\ outcome[c][i] # "valid"
    BY QueuedHasNoRow DEF ValidHasRow
  <2>2. \A d \in Calls, i \in Items : outcome'[d][i] = "valid" <=> outcome[d][i] = "valid"
    BY <1>7, <2>1 DEF GiveUp, Store, TypeOK
  <2>3. Judged' = Judged /\ cache' = cache
    BY <1>7, <2>2 DEF Judged, GiveUp
  <2> QED
    BY <1>1, <1>2, <2>3
<1>8. ASSUME UNCHANGED vars PROVE CacheIsJudged'
  BY <1>1, <1>2, <1>8 DEF vars, Judged
<1> QED
  BY <1>3, <1>4, <1>5, <1>6, <1>7, <1>8, StepCases

\* The cache is exactly what calls found valid, those that raised included.
THEOREM CacheCorrect == Spec => []CacheIsJudged
<1>1. Init => CallsOK /\ ValidHasRow /\ CacheIsJudged
  BY DEF Init, CallsOK, CallOK, Disjoint, ValidHasRow, CacheIsJudged
<1> QED
  BY <1>1, TypeCorrect, CallsStep, ValidStep, CacheStep, PTL DEF Spec

-----------------------------------------------------------------------------
(* Requests. *)

LEMMA ItemsFinite ==
  /\ IsFiniteSet(Items)
  /\ \A S \in SUBSET Items : IsFiniteSet(S) /\ Cardinality(S) \in Nat
<1>1. IsFiniteSet(Items)
  BY FS_Interval, ConstantsAssumption DEF ConstantsAssumption, Items
<1> QED
  BY <1>1, FS_Subset, FS_CardinalityType

LEMMA ChunksFinite ==
  ASSUME NEW Q \in SUBSET SUBSET Items
  PROVE  /\ IsFiniteSet(Q) /\ Cardinality(Q) \in Nat
         /\ IsFiniteSet(UNION Q) /\ Cardinality(UNION Q) \in Nat
<1>1. IsFiniteSet(SUBSET Items)
  BY ItemsFinite, FS_SUBSET
<1>2. IsFiniteSet(Q)
  BY <1>1, FS_Subset
<1> QED
  BY <1>2, ItemsFinite, FS_CardinalityType

\* The requests that settling the chunks of Q may still take: 2k - 1 for one of k items.
Owed(Q) == 2 * Cardinality(UNION Q) - Cardinality(Q)

\* A chunk has an item of its own, so at least one request is owed for each.
LEMMA OwedSome ==
  ASSUME NEW Q \in SUBSET SUBSET Items, Disjoint(Q), {} \notin Q, Q # {}
  PROVE  Owed(Q) \in Int /\ Owed(Q) >= 1
<1> DEFINE U == UNION Q
           f == [x \in U |-> CHOOSE S \in Q : x \in S]
<1>1. \A x \in U : f[x] \in Q /\ x \in f[x]
  OBVIOUS
<1>2. \A S \in Q : \E x \in U : f[x] = S
  <2> SUFFICES ASSUME NEW S \in Q PROVE \E x \in U : f[x] = S
    OBVIOUS
  <2>1. PICK x : x \in S
    OBVIOUS
  <2>2. x \in U
    BY <2>1
  <2> HIDE DEF f
  <2>3. f[x] = S
    BY <1>1, <2>1, <2>2 DEF Disjoint
  <2> QED
    BY <2>2, <2>3
<1>3. f \in Surjection(U, Q)
  <2>1. f \in [U -> Q]
    BY <1>1
  <2> HIDE DEF f
  <2> QED
    BY <1>2, <2>1 DEF Surjection
<1>4. Cardinality(Q) <= Cardinality(U)
  <2>1. IsFiniteSet(U)
    BY ChunksFinite
  <2> HIDE DEF f, U
  <2> QED
    BY <1>3, <2>1, FS_Surjection
<1>5. U # {}
  OBVIOUS
<1>6. /\ IsFiniteSet(U) /\ Cardinality(U) \in Nat /\ Cardinality(Q) \in Nat
      /\ Owed(Q) = 2 * Cardinality(U) - Cardinality(Q)
  BY ChunksFinite DEF Owed
<1> HIDE DEF U
<1>7. Cardinality(U) # 0
  BY <1>5, <1>6, FS_EmptySet
<1> QED
  BY <1>4, <1>6, <1>7

\* A chunk of the queue is settled: the requests it might have taken are not owed.
LEMMA OwedWithout ==
  ASSUME NEW Q \in SUBSET SUBSET Items, Disjoint(Q), {} \notin Q, NEW S \in Q
  PROVE  /\ Q \ {S} \in SUBSET SUBSET Items
         /\ Owed(Q) \in Int /\ Owed(Q \ {S}) \in Int
         /\ Owed(Q \ {S}) + 1 <= Owed(Q)
<1>1. UNION (Q \ {S}) = (UNION Q) \ S /\ S \subseteq UNION Q /\ S # {}
  BY TakeChunk
<1>2. Cardinality((UNION Q) \ S) = Cardinality(UNION Q) - Cardinality(S)
  <2>1. (UNION Q) \cap S = S
    BY <1>1
  <2> QED
    BY <2>1, ChunksFinite, FS_Difference
<1>3. Cardinality(Q \ {S}) = Cardinality(Q) - 1
  BY ChunksFinite, FS_RemoveElement
<1>4. Cardinality(S) \in Nat /\ Cardinality(S) >= 1
  BY <1>1, ItemsFinite, FS_EmptySet
<1>5. Cardinality(UNION Q) \in Nat /\ Cardinality(Q) \in Nat
  BY ChunksFinite
<1>6. /\ Owed(Q) = 2 * Cardinality(UNION Q) - Cardinality(Q)
      /\ Owed(Q \ {S}) = 2 * (Cardinality(UNION Q) - Cardinality(S)) - (Cardinality(Q) - 1)
  BY <1>1, <1>2, <1>3 DEF Owed
<1>7. Q \ {S} \in SUBSET SUBSET Items
  OBVIOUS
<1> QED
  BY <1>4, <1>5, <1>6, <1>7

\* The items of a chunk are numbered from 1 to its size.
LEMMA RankFacts ==
  ASSUME NEW S \in SUBSET Items
  PROVE  /\ \A i \in S : Rank(S, i) \in 1..Cardinality(S)
         /\ \A i, j \in S : i # j => Rank(S, i) # Rank(S, j)
<1> DEFINE upTo(i) == {j \in S : j <= i}
<1>1. \A i : /\ Rank(S, i) = Cardinality(upTo(i)) /\ upTo(i) \in SUBSET S
             /\ IsFiniteSet(upTo(i)) /\ Cardinality(upTo(i)) \in Nat
  BY ItemsFinite DEF Rank
<1>2. \A i \in S : i \in upTo(i) /\ i \in Int
  BY DEF Items
<1>3. ASSUME NEW i \in S, NEW j \in S, i < j
      PROVE  upTo(i) \in SUBSET upTo(j) /\ j \notin upTo(i)
  <2>1. \A k \in S : k \in Int
    BY DEF Items
  <2> QED
    BY <1>3, <2>1
<1>4. IsFiniteSet(S) /\ Cardinality(S) \in Nat
  BY ItemsFinite
<1> HIDE DEF upTo
<1>5. ASSUME NEW i \in S PROVE Rank(S, i) \in 1..Cardinality(S)
  <2>1. Cardinality(upTo(i)) <= Cardinality(S)
    BY <1>1, <1>4, FS_Subset
  <2>2. Cardinality(upTo(i)) # 0
    BY <1>1, <1>2, FS_EmptySet
  <2> QED
    BY <1>1, <1>4, <2>1, <2>2
<1>6. ASSUME NEW i \in S, NEW j \in S, i < j PROVE Rank(S, i) # Rank(S, j)
  BY <1>1, <1>2, <1>3, <1>6, FS_Subset
<1>7. \A i, j \in S : i # j => i < j \/ j < i
  BY <1>2
<1> QED
  BY <1>5, <1>6, <1>7

\* A chunk of more than one item is cut into two chunks that are not empty: the
\* numbers of its items do not fit into one half of them.
LEMMA HalvesNotEmpty ==
  ASSUME NEW S \in SUBSET Items, Cardinality(S) > 1
  PROVE  FirstHalf(S) # {} /\ FirstHalf(S) # S
<1> DEFINE n == Cardinality(S)
           h == n \div 2
           rank == [i \in S |-> Rank(S, i)]
<1>1. IsFiniteSet(S) /\ n \in Nat
  BY ItemsFinite
<1>2. h \in 1..(n - 1)
  <2> HIDE DEF n
  <2> QED
    BY <1>1 DEF n
<1>3. \A i \in S : rank[i] \in 1..n
  BY RankFacts
<1>4. \A i, j \in S : i # j => rank[i] # rank[j]
  BY RankFacts
<1>5. \A i \in S : i \in FirstHalf(S) <=> rank[i] <= h
  BY DEF FirstHalf
<1>6. ASSUME NEW a \in 1..n, NEW b \in 1..n, b - a + 1 < n, \A i \in S : rank[i] \in a..b
      PROVE  FALSE
  <2>1. IsFiniteSet(a..b) /\ Cardinality(a..b) < n
    <3> HIDE DEF n
    <3>1. a \in Int /\ b \in Int /\ n > 1
      BY <1>1, <1>6 DEF n
    <3>2. IsFiniteSet(a..b) /\ Cardinality(a..b) = IF a > b THEN 0 ELSE b - a + 1
      BY <3>1, FS_Interval
    <3> QED
      BY <1>1, <1>6, <3>1, <3>2
  <2>2. rank \in [S -> a..b]
    BY <1>6
  <2> HIDE DEF rank
  <2>3. \E i, j \in S : i # j /\ rank[i] = rank[j]
    BY <1>1, <2>1, <2>2, FS_PigeonHole
  <2> QED
    BY <1>4, <2>3
<1> HIDE DEF rank
<1>7. ASSUME FirstHalf(S) = {} PROVE FALSE
  <2> HIDE DEF n, h
  <2>1. \A i \in S : rank[i] \in (h + 1)..n
    BY <1>1, <1>2, <1>3, <1>5, <1>7
  <2>2. h + 1 \in 1..n /\ n \in 1..n /\ n - (h + 1) + 1 < n
    BY <1>1, <1>2
  <2> QED
    BY <1>6, <2>1, <2>2
<1>8. ASSUME FirstHalf(S) = S PROVE FALSE
  <2> HIDE DEF n, h
  <2>1. \A i \in S : rank[i] \in 1..h
    BY <1>1, <1>2, <1>3, <1>5, <1>8
  <2>2. 1 \in 1..n /\ h \in 1..n /\ h - 1 + 1 < n
    BY <1>1, <1>2
  <2> QED
    BY <1>6, <2>1, <2>2
<1> QED
  BY <1>7, <1>8

\* Cutting a chunk owes one request less than asking for the whole of it: that one
\* has been sent.
LEMMA OwedHalves ==
  ASSUME NEW Q \in SUBSET SUBSET Items, Disjoint(Q), {} \notin Q, NEW S \in Q, Cardinality(S) > 1
  PROVE  LET left == (Q \ {S}) \cup Halves(S)
         IN  /\ left \in SUBSET SUBSET Items /\ Disjoint(left) /\ {} \notin left /\ left # {}
             /\ Owed(Q) \in Int /\ Owed(left) \in Int /\ Owed(left) = Owed(Q) - 1
<1> DEFINE H == FirstHalf(S)
           G == S \ H
           P == Q \ {S}
           left == (Q \ {S}) \cup Halves(S)
<1>1. H # {} /\ G # {} /\ H \subseteq S /\ G \subseteq S /\ H # G
  BY HalvesNotEmpty DEF FirstHalf
<1>2. left = (P \cup {H}) \cup {G}
  BY DEF Halves
<1>3. H \notin P /\ G \notin P
  BY <1>1 DEF Disjoint
<1>4. UNION left = UNION Q /\ Disjoint(left)
  BY CutChunk
<1>5. Cardinality(P) = Cardinality(Q) - 1 /\ IsFiniteSet(P) /\ Cardinality(Q) \in Nat
  BY ChunksFinite, FS_RemoveElement
<1>6. left \in SUBSET SUBSET Items /\ {} \notin left /\ left # {}
  BY <1>1, <1>2
<1>7. Cardinality(left) = Cardinality(Q) + 1
  <2> HIDE DEF H, G, P, left
  <2>1. IsFiniteSet(P \cup {H}) /\ Cardinality(P \cup {H}) = Cardinality(P) + 1
    BY <1>3, <1>5, FS_AddElement
  <2>2. G \notin P \cup {H}
    BY <1>1, <1>3
  <2>3. Cardinality((P \cup {H}) \cup {G}) = Cardinality(P \cup {H}) + 1
    BY <2>1, <2>2, FS_AddElement
  <2> QED
    BY <1>2, <1>5, <2>1, <2>3
<1>8. Cardinality(UNION Q) \in Nat
  BY ChunksFinite
<1>9. Owed(Q) = 2 * Cardinality(UNION Q) - Cardinality(Q)
      /\ Owed(left) = 2 * Cardinality(UNION Q) - (Cardinality(Q) + 1)
  BY <1>4, <1>7 DEF Owed
<1> HIDE DEF left
<1>10. Owed(Q) \in Int /\ Owed(left) \in Int /\ Owed(left) = Owed(Q) - 1
  BY <1>5, <1>8, <1>9
<1> QED
  BY <1>4, <1>6, <1>10 DEF left

\* The requests a call may send, and that what it has sent and still owes fits in.
Allowed(c) == 2 * Cardinality(call[c].misses) - Cardinality(Chunks(call[c].misses))

AskedOK(c) ==
  /\ {} \notin queue[c]
  /\ asked[c] <= Allowed(c)
  /\ call[c].pc = "asking" => asked[c] + Owed(queue[c]) - 1 <= Allowed(c)

Asked == \A c \in Calls : AskedOK(c)

LEMMA AllowedTyped ==
  ASSUME TypeOK, NEW c \in Calls
  PROVE  Allowed(c) \in Int /\ asked[c] \in Nat
<1>1. call[c].misses \in SUBSET Items
  BY DEF TypeOK
<1>2. Chunks(call[c].misses) \in SUBSET SUBSET Items
  BY <1>1, ChunksPartition
<1>3. Cardinality(call[c].misses) \in Nat /\ Cardinality(Chunks(call[c].misses)) \in Nat
  BY <1>1, <1>2, ItemsFinite, ChunksFinite
<1> QED
  BY <1>3 DEF Allowed, TypeOK

\* The chunks depend on the batch size and the items only.
Cut(n, S) ==
  LET safe == IF n < 1 THEN 1 ELSE n
      chunk(i) == {j \in S : (Rank(S, j) - 1) \div safe = (Rank(S, i) - 1) \div safe}
  IN {chunk(i) : i \in S}

LEMMA AllowedCut ==
  ASSUME NEW c \in Calls
  PROVE  /\ Allowed(c) = 2 * Cardinality(call[c].misses) - Cardinality(Cut(size, call[c].misses))
         /\ Allowed(c)' = 2 * Cardinality(call'[c].misses) - Cardinality(Cut(size', call'[c].misses))
<1>1. Chunks(call[c].misses) = Cut(size, call[c].misses)
  BY DEF Chunks, Cut
<1>2. Chunks(call[c].misses)' = Cut(size', call'[c].misses)
  BY DEF Chunks, Cut
<1> QED
  BY <1>1, <1>2 DEF Allowed

\* A call goes on with the chunks in left: what was counted for them pays for it.
LEMMA ProceedAsked ==
  ASSUME TypeOK, NEW c \in Calls, AskedOK(c), call[c].pc = "asking", size' = size,
         NEW left \in SUBSET SUBSET Items, Proceed(c, left),
         Disjoint(left), {} \notin left, Owed(queue[c]) \in Int,
         left # {} => Owed(left) + 1 <= Owed(queue[c])
  PROVE  AskedOK(c)'
<1>1. /\ queue'[c] = left /\ call'[c].misses = call[c].misses
      /\ call'[c].pc = IF left = {} THEN "answered" ELSE "asking"
      /\ asked'[c] = asked[c] + IF left = {} THEN 0 ELSE 1
  BY DEF Proceed, TypeOK
<1>3. Allowed(c)' = Allowed(c)
  BY <1>1, AllowedCut
<1>4. Allowed(c) \in Int /\ asked[c] \in Nat
  BY AllowedTyped
<1>5. asked[c] <= Allowed(c) /\ asked[c] + Owed(queue[c]) - 1 <= Allowed(c)
  BY DEF AskedOK
<1>6. CASE left = {}
  BY <1>1, <1>3, <1>4, <1>5, <1>6 DEF AskedOK
<1>7. CASE left # {}
  <2>1. Owed(left) \in Int /\ Owed(left) >= 1
    BY <1>7, OwedSome
  <2>2. Owed(queue[c])' = Owed(left)
    BY <1>1 DEF Owed
  <2>3. asked[c] + 1 <= Allowed(c) /\ asked[c] + 1 + Owed(left) - 1 <= Allowed(c)
    BY <1>4, <1>5, <1>7, <2>1
  <2> QED
    BY <1>1, <1>3, <1>7, <2>2, <2>3 DEF AskedOK
<1> QED
  BY <1>6, <1>7

LEMMA SettleAsked ==
  ASSUME TypeOK, NEW c \in Calls, CallOK(c), AskedOK(c), NEW S \in queue[c],
         size' = size, Proceed(c, queue[c] \ {S})
  PROVE  AskedOK(c)'
<1> DEFINE left == queue[c] \ {S}
<1>1. queue[c] \in SUBSET SUBSET Items /\ Disjoint(queue[c]) /\ {} \notin queue[c]
      /\ call[c].pc = "asking"
  BY DEF TypeOK, CallOK, AskedOK
<1>2. left \in SUBSET SUBSET Items /\ Disjoint(left) /\ {} \notin left
  BY <1>1, TakeChunk
<1>3. Owed(queue[c]) \in Int /\ Owed(left) + 1 <= Owed(queue[c])
  BY <1>1, OwedWithout
<1>4. Proceed(c, left)
  OBVIOUS
<1> HIDE DEF left
<1> QED
  BY <1>1, <1>2, <1>3, <1>4, ProceedAsked

LEMMA BisectAsked ==
  ASSUME TypeOK, NEW c \in Calls, CallOK(c), AskedOK(c), NEW S \in queue[c], Bisect(c, S)
  PROVE  AskedOK(c)'
<1> DEFINE left == (queue[c] \ {S}) \cup Halves(S)
<1>1. queue[c] \in SUBSET SUBSET Items /\ Disjoint(queue[c]) /\ {} \notin queue[c]
      /\ call[c].pc = "asking" /\ Cardinality(S) > 1 /\ size' = size
  BY DEF TypeOK, CallOK, AskedOK, Bisect
<1>2. S \in SUBSET Items
  BY <1>1
<1>3. left \in SUBSET SUBSET Items /\ Disjoint(left) /\ {} \notin left
      /\ Owed(queue[c]) \in Int /\ Owed(left) \in Int /\ Owed(left) = Owed(queue[c]) - 1
  BY <1>1, <1>2, OwedHalves
<1>4. Proceed(c, left)
  BY DEF Bisect
<1> HIDE DEF left
<1>5. Owed(left) + 1 <= Owed(queue[c])
  BY <1>3
<1> QED
  BY <1>1, <1>3, <1>4, <1>5, ProceedAsked

LEMMA BeginAsked ==
  ASSUME TypeOK, NEW c \in Calls, NEW items \in SUBSET Items, NEW partial, Begin(c, items, partial)
  PROVE  AskedOK(c)'
<1> DEFINE misses == items \ {i \in items : KeyOf[i] \in cache}
<1>1. /\ queue'[c] = Chunks(misses)
      /\ call'[c].misses = misses
      /\ call'[c].pc = IF misses = {} THEN "answered" ELSE "asking"
      /\ asked'[c] = IF misses = {} THEN 0 ELSE 1
      /\ size' = size
  BY DEF Begin, TypeOK
<1> HIDE DEF misses
<1>2. misses \in SUBSET Items
  BY DEF misses
<1>3. Chunks(misses) = Cut(size, misses)
  BY DEF Chunks, Cut
<1>4. UNION Chunks(misses) = misses /\ Disjoint(Chunks(misses)) /\ Chunks(misses) \in SUBSET SUBSET Items
  BY <1>2, ChunksPartition
<1>5. {} \notin Chunks(misses)
  BY DEF Chunks
<1>6. Allowed(c)' = Owed(Chunks(misses)) /\ Owed(queue[c])' = Owed(Chunks(misses))
  <2>1. Allowed(c)' = 2 * Cardinality(misses) - Cardinality(Chunks(misses))
    BY <1>1, <1>3, AllowedCut
  <2>2. Owed(queue[c])' = Owed(queue'[c])
    BY DEF Owed
  <2> QED
    BY <1>1, <1>4, <2>1, <2>2 DEF Owed
<1>7. CASE misses = {}
  <2>1. Chunks(misses) = {}
    BY <1>7 DEF Chunks
  <2>2. Owed(Chunks(misses)) = 0
    BY <1>4, <1>7, <2>1, FS_EmptySet DEF Owed
  <2> QED
    BY <1>1, <1>5, <1>6, <1>7, <2>2 DEF AskedOK
<1>8. CASE misses # {}
  <2>1. Chunks(misses) # {}
    BY <1>4, <1>8
  <2>2. Owed(Chunks(misses)) \in Int /\ Owed(Chunks(misses)) >= 1
    BY <1>4, <1>5, <2>1, OwedSome
  <2> QED
    BY <1>1, <1>5, <1>6, <1>8, <2>2 DEF AskedOK
<1> QED
  BY <1>7, <1>8

LEMMA AskedStep == TypeOK /\ CallsOK /\ Asked /\ [Next]_vars => Asked'
<1> SUFFICES ASSUME TypeOK, CallsOK, Asked, [Next]_vars PROVE Asked'
  OBVIOUS
<1>1. ASSUME NEW d \in Calls, UNCHANGED <<size, queue[d], asked[d]>>,
             call'[d].misses = call[d].misses, call'[d].pc = "asking" => call[d].pc = "asking"
      PROVE  AskedOK(d)'
  <2>1. Allowed(d)' = Allowed(d) /\ Owed(queue[d])' = Owed(queue[d])
    BY <1>1, AllowedCut DEF Owed
  <2> QED
    BY <1>1, <2>1 DEF Asked, AskedOK
<1>2. ASSUME NEW c \in Calls, AskedOK(c)', size' = size,
             \A d \in Calls \ {c} : UNCHANGED <<call[d], queue[d], asked[d]>>
      PROVE  Asked'
  BY <1>1, <1>2 DEF Asked
<1>3. ASSUME NEW c \in Calls, Refuse(c) PROVE Asked'
  <2>1. AskedOK(c)'
    BY <1>1, <1>3 DEF Refuse, TypeOK
  <2> QED
    BY <1>2, <1>3, <2>1 DEF Refuse, TypeOK
<1>4. ASSUME NEW c \in Calls, NEW items \in Requests, NEW partial \in BOOLEAN,
             Begin(c, items, partial)
      PROVE  Asked'
  <2>1. AskedOK(c)'
    BY <1>4, BeginAsked, ConstantsAssumption DEF ConstantsAssumption
  <2> QED
    BY <1>2, <1>4, <2>1 DEF Begin, TypeOK
<1>5. ASSUME NEW c \in Calls, Fail(c) PROVE Asked'
  <2>1. /\ queue'[c] = {} /\ asked'[c] = asked[c] /\ call'[c].pc = "raised" /\ size' = size
        /\ call'[c].misses = call[c].misses
    BY <1>5 DEF Fail, TypeOK
  <2>2. Allowed(c)' = Allowed(c)
    BY <2>1, AllowedCut
  <2>3. AskedOK(c)'
    BY <2>1, <2>2 DEF Asked, AskedOK
  <2> QED
    BY <1>2, <1>5, <2>3 DEF Fail, TypeOK
<1>6. ASSUME NEW c \in Calls, NEW S \in queue[c], Judge(c, S) PROVE Asked'
  <2>1. AskedOK(c)'
    BY <1>6, SettleAsked DEF Judge, CallsOK, Asked
  <2> QED
    BY <1>2, <1>6, <2>1 DEF Judge, Proceed, TypeOK
<1>7. ASSUME NEW c \in Calls, NEW S \in queue[c], Bisect(c, S) PROVE Asked'
  <2>1. AskedOK(c)'
    BY <1>7, BisectAsked DEF CallsOK, Asked
  <2> QED
    BY <1>2, <1>7, <2>1 DEF Bisect, Proceed, TypeOK
<1>8. ASSUME NEW c \in Calls, NEW S \in queue[c], NEW why, GiveUp(c, S, why) PROVE Asked'
  <2>1. AskedOK(c)'
    BY <1>8, SettleAsked DEF GiveUp, CallsOK, Asked
  <2> QED
    BY <1>2, <1>8, <2>1 DEF GiveUp, Proceed, TypeOK
<1>9. ASSUME UNCHANGED vars PROVE Asked'
  BY <1>1, <1>9 DEF vars, Asked
<1> QED
  BY <1>3, <1>4, <1>5, <1>6, <1>7, <1>8, <1>9, StepCases

(* Halving cannot go on for ever: however replies are garbled and timed out, a call sends
   at most 2k - 1 requests for each of its chunks of k items, and so at most that much
   is paid for (llm_review.py:360-387). *)
THEOREM RequestsStayBounded == Spec => []RequestsBounded
<1>1. Init => Asked
  <2> SUFFICES ASSUME Init, NEW c \in Calls PROVE AskedOK(c)
    BY DEF Asked
  <2>1. queue[c] = {} /\ asked[c] = 0 /\ call[c].pc = "new" /\ call[c].misses = {}
    BY DEF Init
  <2>2. Chunks(call[c].misses) = {}
    BY <2>1 DEF Chunks
  <2>3. Allowed(c) = 0
    BY <2>1, <2>2, FS_EmptySet DEF Allowed
  <2> QED
    BY <2>1, <2>3 DEF AskedOK
<1>2. Init => CallsOK
  BY DEF Init, CallsOK, CallOK, Disjoint
<1>3. Asked => RequestsBounded
  BY DEF Asked, AskedOK, Allowed, RequestsBounded
<1> QED
  BY <1>1, <1>2, <1>3, TypeCorrect, CallsStep, AskedStep, PTL DEF Spec

=============================================================================
