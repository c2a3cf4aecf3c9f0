-------------------------- MODULE SuggestionBatches --------------------------
(***************************************************************************)
(* generate_llm_suggestions of llm_review.py with the provider client and  *)
(* the reply parser of llm.py: the items of a request are looked up in the *)
(* cache, the others go to the provider in chunks, a chunk whose reply     *)
(* cannot be read is asked again in halves, and each item ends up with a   *)
(* stored suggestion or a stored failure.                                  *)
(*                                                                         *)
(* The handlers are coroutines of one event loop: a step runs from one     *)
(* await, a request to the provider, to the next.  What the stored         *)
(* suggestions do to a plan is module PlanReview.                          *)
(***************************************************************************)
EXTENDS Integers, FiniteSets

CONSTANTS
  Calls,    \* requests for suggestions
  N,        \* items of the plan, numbered in the order a request names them
  Keys,     \* cache keys: equal names with equal neighbours share one
  KeyOf,    \* the key of each item
  Requests, \* sets of items that a call may ask for
  Modes,    \* provider modes of the settings
  Sizes     \* values of max_batch_size in the settings

Items == 1..N

ASSUME ConstantsAssumption ==
  N \in Nat /\ KeyOf \in [Items -> Keys] /\ Sizes \subseteq Int
  /\ Requests \subseteq SUBSET Items
  /\ Modes \subseteq {"strict", "compat", "ollama"}

\* A reply with status 200: what surrounds the JSON, the shape of its root,
\* the first field that breaks the schema, and whether a name looks like a path.
Reply == [around : {"nothing", "prose", "second_object", "no_object", "cut_short"},
          root : {"suggestions", "one_suggestion", "other"},
          fields : {"good", "missing", "extra", "type", "confidence"},
          path : BOOLEAN]

\* Variant: a code that the batch is not asked again for.
RecoverableCodes_Few ==
  {"invalid_json", "no_json_object", "schema_invalid", "missing_required_field",
   "extra_field", "wrong_field_type", "confidence_out_of_range"}

RecoverableCodes ==
  {"invalid_json", "multiple_json_objects", "no_json_object", "schema_invalid",
   "missing_required_field", "extra_field", "wrong_field_type",
   "confidence_out_of_range"}

\* What the last row of an item says: its status, and for an invalid one where it
\* comes from. The last two have a recoverable code for their warning: the reply
\* could not be read, or it could and says nothing of the item (llm_review.py:403-409).
Outcomes == {"none", "valid", "invalid", "unreadable", "left_out"}

VARIABLES
  mode,     \* provider_mode of the settings
  size,     \* max_batch_size of the settings
  garbles,  \* items that can make the provider garble a reply they are part of
  cache,    \* keys of llm_suggestion_cache
  call,     \* each call: its next step, its items, allow_partial_failures
  queue,    \* the chunks a call has yet to settle, the one it awaits included
  rows,     \* rows a call has stored for each item in llm_suggestions
  outcome,  \* what the last of them says
  asked     \* requests a call has sent to the provider

vars == <<mode, size, garbles, cache, call, queue, rows, outcome, asked>>

TypeOK ==
  /\ mode \in Modes /\ size \in Sizes
  /\ garbles \subseteq Items
  /\ cache \subseteq Keys
  /\ call \in [Calls -> [pc : {"new", "asking", "answered", "raised"},
                         items : SUBSET Items, misses : SUBSET Items, partial : BOOLEAN]]
  /\ queue \in [Calls -> SUBSET SUBSET Items]
  /\ rows \in [Calls -> [Items -> Nat]]
  /\ outcome \in [Calls -> [Items -> Outcomes]]
  /\ asked \in [Calls -> Nat]

Init ==
  /\ mode \in Modes /\ size \in Sizes
  /\ garbles \in SUBSET Items
  /\ cache = {}
  /\ call = [c \in Calls |-> [pc |-> "new", items |-> {}, misses |-> {}, partial |-> FALSE]]
  /\ queue = [c \in Calls |-> {}]
  /\ rows = [c \in Calls |-> [i \in Items |-> 0]]
  /\ outcome = [c \in Calls |-> [i \in Items |-> "none"]]
  /\ asked = [c \in Calls |-> 0]

-----------------------------------------------------------------------------
(* The parser. *)

\* Two of the capabilities of a mode; they go together.
AllowsExtraction(m) == m = "compat"

\* extract_json_candidate, then json.loads: a mode that takes the text as it is
\* calls whatever is around the object invalid JSON.
JsonCode(m) ==
  LET lax(code) == IF AllowsExtraction(m) THEN code ELSE "invalid_json"
  IN [nothing |-> "ok", prose |-> lax("ok"), second_object |-> lax("multiple_json_objects"),
      no_object |-> lax("no_json_object"), cut_short |-> "invalid_json"]

\* normalize_llm_json_shape: a lone suggestion is wrapped, in the same modes.
RootCode(m) ==
  [suggestions |-> "ok", other |-> "schema_invalid",
   one_suggestion |-> IF AllowsExtraction(m) THEN "ok" ELSE "schema_invalid"]

FieldCode ==
  [good |-> "ok", missing |-> "missing_required_field", extra |-> "extra_field",
   type |-> "wrong_field_type", confidence |-> "confidence_out_of_range"]

\* The code of the first check that fails, or "ok".
Parsed(m, reply) ==
  LET codes == <<JsonCode(m)[reply.around], RootCode(m)[reply.root], FieldCode[reply.fields],
                 IF reply.path THEN "path_like" ELSE "ok">>
      fails(k) == codes[k] # "ok"
  IN IF \E k \in 1..4 : fails(k)
       THEN codes[CHOOSE k \in 1..4 : fails(k) /\ \A j \in 1..(k - 1) : ~fails(j)]
       ELSE "ok"

\* What the parser can say in each mode. A body that is not JSON at all raises
\* ValueError, which is handled as schema_invalid.
Codes == [m \in Modes |-> {Parsed(m, reply) : reply \in Reply}]

-----------------------------------------------------------------------------
(* Chunks: sets of items, since a request keeps their order. *)

\* i is the Rank(S, i)-th item of S.
Rank(S, i) == Cardinality({j \in S : j <= i})

\* _chunks, which takes a size below 1 for 1.
Chunks(S) ==
  LET safe == IF size < 1 THEN 1 ELSE size
      chunk(i) == {j \in S : (Rank(S, j) - 1) \div safe = (Rank(S, i) - 1) \div safe}
  IN {chunk(i) : i \in S}

\* Variant: the midpoint rounded the other way.
FirstHalf_Up(S) == {i \in S : Rank(S, i) <= 1 + Cardinality(S) \div 2}

FirstHalf(S) == {i \in S : Rank(S, i) <= Cardinality(S) \div 2}
\* Variant: the second slice starts one item early.
Halves_Overlap(S) == {FirstHalf(S), {i \in S : Rank(S, i) >= Cardinality(S) \div 2}}

\* The two chunks that a chunk of more than one item is cut into.
Halves(S) == {FirstHalf(S), S \ FirstHalf(S)}

\* S holds the first of the items that are not settled: the next to be asked for.
IsNext(c, S) ==
  S \in queue[c] /\ \A T \in queue[c] : \E i \in S : \A j \in T : i <= j

-----------------------------------------------------------------------------
(* The steps of a call. *)

\* A row for every item that said, a function from items to outcomes, speaks of.
Store(c, said) ==
  /\ rows' = [rows EXCEPT ![c] = [i \in Items |-> @[i] + IF i \in DOMAIN said THEN 1 ELSE 0]]
  /\ outcome' = [outcome EXCEPT ![c] =
                   [i \in Items |-> IF i \in DOMAIN said THEN said[i] ELSE @[i]]]

\* The chunks in left are what remains: the call awaits the first or is over.
Proceed(c, left) ==
  /\ queue' = [queue EXCEPT ![c] = left]
  /\ call' = [call EXCEPT ![c].pc = IF left = {} THEN "answered" ELSE "asking"]
  /\ asked' = [asked EXCEPT ![c] = @ + IF left = {} THEN 0 ELSE 1]

\* _known_items and the check of the settings, before anything is stored.
Refuse(c) ==
  /\ call[c].pc = "new"
  /\ call' = [call EXCEPT ![c].pc = "raised"]
  /\ UNCHANGED <<mode, size, garbles, cache, queue, rows, outcome, asked>>

\* save_llm_cache: the row of a key is replaced, get_llm_cache finds it by the key.
SaveCache(S) == cache' = cache \cup {KeyOf[i] : i \in S}

\* A cached suggestion is validated again, against the plan as it is now.
Begin(c, items, partial) ==
  LET hits == {i \in items : KeyOf[i] \in cache}
      misses == items \ hits
  IN /\ call[c].pc = "new"
     /\ \E said \in [hits -> {"valid", "invalid"}] : Store(c, said)
     /\ queue' = [queue EXCEPT ![c] = Chunks(misses)]
     /\ call' = [call EXCEPT ![c] = [pc |-> IF misses = {} THEN "answered" ELSE "asking",
                                     items |-> items, misses |-> misses, partial |-> partial]]
     /\ asked' = [asked EXCEPT ![c] = IF misses = {} THEN 0 ELSE 1]
     /\ UNCHANGED <<mode, size, garbles, cache>>

\* Variant: every suggestion of the batch is cached, whatever its validation says.
Judge_CacheAll(c, S) ==
  /\ \E said \in [S -> {"valid", "invalid", "left_out"}] : Store(c, said)
  /\ SaveCache(S)
  /\ Proceed(c, queue[c] \ {S})
  /\ UNCHANGED <<mode, size, garbles>>

\* A batch that parses has a name for an item, valid or not, or leaves the item
\* out. What it says of items outside the chunk is not looked at.
Judge(c, S) ==
  /\ \E said \in [S -> {"valid", "invalid", "left_out"}] :
       /\ Store(c, said)
       /\ SaveCache({i \in S : said[i] = "valid"})
  /\ Proceed(c, queue[c] \ {S})
  /\ UNCHANGED <<mode, size, garbles>>

\* A reply that cannot be read: half of the chunk is asked for again.
Bisect(c, S) ==
  /\ call[c].partial /\ Cardinality(S) > 1
  /\ Proceed(c, (queue[c] \ {S}) \cup Halves(S))
  /\ UNCHANGED <<mode, size, garbles, cache, rows, outcome>>

\* Variant: the error code stored where the status belongs.
GiveUp_Code(c, S, why) ==
  /\ call[c].partial
  /\ Store(c, [i \in S |-> "provider_error"])
  /\ Proceed(c, queue[c] \ {S})
  /\ UNCHANGED <<mode, size, garbles, cache>>

\* A failure for every item of the chunk.
GiveUp(c, S, why) ==
  /\ call[c].partial
  /\ Store(c, [i \in S |-> why])
  /\ Proceed(c, queue[c] \ {S})
  /\ UNCHANGED <<mode, size, garbles, cache>>

\* AppError: the rows stay, the answer does not come.
Fail(c) ==
  /\ call' = [call EXCEPT ![c].pc = "raised"]
  /\ queue' = [queue EXCEPT ![c] = {}]
  /\ UNCHANGED <<mode, size, garbles, cache, rows, outcome, asked>>

\* The parser's verdict on the reply decides. What cannot be read is asked for
\* again in halves; a name that looks like a path costs the chunk its suggestions.
\* An item outside garbles never makes a reply unreadable; with garbles = Items
\* the provider may garble anything.
Received(c, S, code) ==
  /\ IsNext(c, S)
  /\ code \in {"ok", "path_like"} \/ S \cap garbles # {}
  /\ \/ code = "ok" /\ Judge(c, S)
     \/ code \in RecoverableCodes /\ Bisect(c, S)
     \/ /\ code # "ok" /\ ~(code \in RecoverableCodes /\ Cardinality(S) > 1)
        /\ GiveUp(c, S, IF code = "path_like" THEN "invalid" ELSE "unreadable")
     \/ code # "ok" /\ ~call[c].partial /\ Fail(c)

\* httpx gives up after default_timeout_seconds.
TimeOut(c, S) ==
  /\ IsNext(c, S)
  /\ \/ GiveUp(c, S, "invalid")
     \/ ~call[c].partial /\ Fail(c)

\* Any other exception ends the call, allow_partial_failures or not.
ProviderError(c, S) ==
  /\ IsNext(c, S)
  /\ Fail(c)

Next ==
  \E c \in Calls :
    \/ Refuse(c)
    \/ \E items \in Requests, partial \in BOOLEAN : Begin(c, items, partial)
    \/ \E S \in queue[c] :
         \/ \E code \in Codes[mode] : Received(c, S, code)
         \/ TimeOut(c, S)
         \/ ProviderError(c, S)

Spec == Init /\ [][Next]_vars

-----------------------------------------------------------------------------
(* Properties. *)

Settled(c) == call[c].items \ UNION queue[c]

\* Every item of a call that is answered has exactly one row from it, however
\* its chunk was cut, failed or read; before that, exactly the settled ones do.
EachItemOnce ==
  \A c \in Calls : call[c].pc \in {"asking", "answered"} =>
    /\ \A i \in Items : rows[c][i] = IF i \in Settled(c) THEN 1 ELSE 0
    /\ call[c].pc = "answered" => Settled(c) = call[c].items

\* An item whose own request is never garbled does not get a recoverable code
\* because of the items it was sent with: asking for halves isolates the culprits.
\* The exception is an item that a reply which could be read leaves out: it gets
\* such a code and is not asked for again.
OnlyCulprits ==
  \A c \in Calls, i \in Items :
    outcome[c][i] \in {"unreadable", "left_out"} => i \in garbles \/ outcome[c][i] = "left_out"

\* The cache holds what some call found valid and nothing else, whatever calls
\* ran beside it or ended in an error: a later call is spared those requests
\* and no other.
CacheIsJudged ==
  cache = {KeyOf[i] : i \in {j \in Items : \E c \in Calls : outcome[c][j] = "valid"}}

\* Halving cannot go on for ever: the requests for a chunk of k items are at
\* most 2k - 1.
RequestsBounded ==
  \A c \in Calls :
    asked[c] <= 2 * Cardinality(call[c].misses) - Cardinality(Chunks(call[c].misses))
=============================================================================
