------------------------ MODULE GovernedRetrievalProofs ------------------------
(***************************************************************************)
(* Proofs about GovernedRetrieval for every set of editors, queries and    *)
(* knowledge bases, and every number of failing Redis calls.               *)
(*                                                                         *)
(* What the properties say of the two stored copies holds only because of  *)
(* what the handlers hold in their local variables between two awaits:     *)
(* Alone is that, for as long as writers do not overlap, Marks for those   *)
(* that do, and Epochs for what lookups and stores remember of the epoch.  *)
(***************************************************************************)
EXTENDS GovernedRetrieval, TLAPS

EditSteps == {"new", "looked"} \cup Gov!Working \cup Gov!Ended
EditState == [step : EditSteps, base : Nat, copy : Gov!Copy]

GovernType ==
    /\ home \in BOOLEAN /\ overlap \in BOOLEAN
    /\ chunk \in Gov!Copy
    /\ vector \in Gov!Copy \cup {None}
    /\ embed \in Gov!Copy \cup {None}
    /\ ed \in [Editor -> EditState]

(* Writers that do not overlap are alone with the chunk: what they hold is *)
(* what the row says, and in the middle of an edit there is no vector.     *)
Alone ==
    ~overlap =>
        /\ embed # None => embed.text = chunk.text /\ \A e \in Editor : ~Gov!InFlight(e)
        /\ \A e, f \in Editor : Gov!InFlight(e) /\ Gov!InFlight(f) => e = f
        /\ \A e \in Editor :
            /\ ed[e].step \in {"checked", "rechecked", "saved"} => ed[e].copy.text = chunk.text
            /\ home /\ ed[e].step \in {"unindexed", "saved"} => vector = None

(* Nothing of e's edit is in copy c. *)
Unmarked(e, c) == c.text # e /\ e \notin c.meta

(* An edit that has not saved has left nothing, also not in what other     *)
(* handlers hold.                                                          *)
Unsaved == EditSteps \ {"saved", "reindexed", "ok", "error"}
Marks ==
    \A e \in Editor : ed[e].step \in Unsaved =>
        /\ Unmarked(e, chunk)
        /\ vector # None => Unmarked(e, vector)
        /\ embed # None => Unmarked(e, embed)
        /\ \A f \in Editor : Unmarked(e, ed[f].copy)

(* A missing vector is somebody's to write, unless a write failed. *)
Missing ==
    vector = None =>
        embed # None \/ \E e \in Editor : ed[e].step \in {"unindexed", "saved", "error"}

GovernInv == GovernType /\ Alone /\ Gov!NeverServesSuperseded /\ Marks /\ Missing

QuerySteps == {"new", "empty", "prompted", "lookup", "near", "generate", "generated", "stored",
               "answered"}
QueryState ==
    [step : QuerySteps, cacheable : BOOLEAN, prompt : Gov!Text \cup {Elsewhere}, latest : BOOLEAN,
     epoch : Nat, seen : Nat, from : {"nothing", "model", "exact", "near"},
     answer : Gov!Text \cup {Elsewhere}, stamp : Nat]

(* A prompt made while no writers overlapped has the row's text. *)
Prompted ==
    \A r \in Query :
        /\ q[r].step \notin {"new", "empty"} /\ home /\ ~overlap => q[r].latest
        /\ q[r].step = "answered" /\ q[r].from # "near" => q[r].answer = q[r].prompt

Entry == [kb : KB, epoch : Nat, prompt : Gov!Text \cup {Elsewhere}, seen : Nat]
NearEntry == [kb : KB, prompt : Gov!Text \cup {Elsewhere}, seen : Nat]

CacheType ==
    /\ redis \in BOOLEAN
    /\ counter \in [KB -> Nat] /\ bumps \in [KB -> Nat]
    /\ exact \in SUBSET Entry /\ near \in SUBSET NearEntry
    /\ faults \in Nat
    /\ q \in [Query -> QueryState]

(* The epoch callers are told after n invalidations. *)
EpochAfter(n) == IF redis THEN (IF n = 0 THEN 1 ELSE n) ELSE n + 1

(* Without failing calls, whoever holds an epoch knows how many            *)
(* invalidations there were when it was read.                              *)
Epochs ==
    faults = 0 =>
        /\ \A k \in KB : Cache!Epoch(k) = EpochAfter(bumps[k]) /\ (redis => counter[k] = bumps[k])
        /\ \A n \in exact : n.epoch = EpochAfter(n.seen)
        /\ \A r \in Query :
            /\ q[r].step = "lookup" => q[r].epoch = EpochAfter(q[r].seen)
            /\ q[r].step = "generated" => q[r].epoch = EpochAfter(q[r].stamp)

Fresh == \A r \in Query : q[r].from # "nothing" => q[r].step = "answered"

QueryInv == CacheType /\ Prompted /\ Epochs /\ Fresh /\ ExactHitsOutliveNoInvalidation

IInv == GovernInv /\ QueryInv
-------------------------------------------------------------------------------
(* NewChunk is a copy, with nothing of any editor in it. *)
LEMMA NewChunkFacts ==
    /\ Gov!NewChunk \in Gov!Copy /\ Gov!NewChunk # None
    /\ \A e \in Editor : Unmarked(e, Gov!NewChunk)
    /\ None \notin Gov!Copy
<1>1. Gov!NewChunk \in Gov!Copy
  BY DEF Gov!NewChunk, Gov!Copy, Gov!Text
<1>2. None \notin Gov!Copy /\ Original \notin Editor
  BY RetrievalAssumption DEF Gov!GovernanceConstants
<1>3. \A e \in Editor : Unmarked(e, Gov!NewChunk)
  BY <1>2 DEF Unmarked, Gov!NewChunk
<1> QED
  BY <1>1, <1>2, <1>3

(* What PUT and PATCH make of a copy. *)
Patched(c, e) == [c EXCEPT !.meta = @ \cup {e}, !.version = @ + 1]
Rewritten(c, e) == [text |-> e, meta |-> c.meta \cup {e}, version |-> c.version + 1]

LEMMA EditedFacts ==
    ASSUME NEW c \in Gov!Copy, NEW e \in Editor
    PROVE  /\ Patched(c, e) \in Gov!Copy /\ Patched(c, e).text = c.text
           /\ Rewritten(c, e) \in Gov!Copy
           /\ \A f \in Editor \ {e} :
                Unmarked(f, c) => Unmarked(f, Patched(c, e)) /\ Unmarked(f, Rewritten(c, e))
<1> DEFINE meta == c.meta \cup {e}
           version == c.version + 1
<1>1. meta \in SUBSET Editor /\ version \in Nat \ {0} /\ e \in Gov!Text /\ c.text \in Gov!Text
  BY DEF Gov!Copy, Gov!Text
<1>2. /\ Patched(c, e) = [c EXCEPT !.meta = meta, !.version = version]
      /\ Rewritten(c, e) = [text |-> e, meta |-> meta, version |-> version]
  BY DEF Patched, Rewritten
<1>3. \A f \in Editor \ {e} : f \notin c.meta => f \notin meta
  OBVIOUS
<1> HIDE DEF meta, version
<1>4. Patched(c, e) \in Gov!Copy /\ Patched(c, e).text = c.text /\ Patched(c, e).meta = meta
  BY <1>1, <1>2 DEF Gov!Copy
<1>5. Rewritten(c, e) \in Gov!Copy /\ Rewritten(c, e).text = e /\ Rewritten(c, e).meta = meta
  BY <1>1, <1>2 DEF Gov!Copy
<1> QED
  BY <1>3, <1>4, <1>5 DEF Unmarked

LEMMA GovernInitially == Gov!GovernInit => GovernInv
<1> SUFFICES ASSUME Gov!GovernInit PROVE GovernInv
  OBVIOUS
<1> USE NewChunkFacts DEF Gov!GovernInit
<1>1. GovernType
  BY DEF GovernType, EditState, EditSteps
<1>2. Alone
  BY DEF Alone, Gov!InFlight, Gov!Working
<1>3. Gov!NeverServesSuperseded
  BY DEF Gov!NeverServesSuperseded
<1>4. Marks
  BY DEF Marks
<1>5. Missing
  BY DEF Missing
<1> QED
  BY <1>1, <1>2, <1>3, <1>4, <1>5 DEF GovernInv

LEMMA EmbedStageKeeps == GovernInv /\ Gov!EmbedStage => GovernInv'
<1> SUFFICES ASSUME GovernInv, Gov!EmbedStage PROVE GovernInv'
  OBVIOUS
<1> USE DEF GovernInv, Gov!EmbedStage
<1>1. GovernType'
  BY DEF GovernType
<1>2. Alone'
  BY DEF Alone, Gov!InFlight, Gov!Working
<1>3. Gov!NeverServesSuperseded'
  BY DEF Alone, Gov!NeverServesSuperseded
<1>4. Marks'
  BY DEF Marks, Unmarked
<1>5. Missing'
  BY DEF Missing
<1> QED
  BY <1>1, <1>2, <1>3, <1>4, <1>5

LEMMA LookKeeps ==
    ASSUME GovernInv, NEW e \in Editor, Gov!Look(e)
    PROVE  GovernInv'
<1> USE DEF GovernInv, Gov!Look
<1>1. GovernType'
  <2>1. chunk.version \in Nat
    BY DEF GovernType, Gov!Copy
  <2> QED
    BY <2>1 DEF GovernType, EditState, EditSteps
<1>2. Alone'
  BY DEF Alone, GovernType, EditState, Gov!InFlight, Gov!Working
<1>3. Gov!NeverServesSuperseded'
  BY DEF Gov!NeverServesSuperseded
<1>4. Marks'
  BY DEF Marks, Unmarked, Unsaved, EditSteps, GovernType, EditState
<1>5. Missing'
  BY DEF Missing, GovernType, EditState
<1> QED
  BY <1>1, <1>2, <1>3, <1>4, <1>5

LEMMA RouteCheckKeeps ==
    ASSUME GovernInv, NEW e \in Editor, Gov!RouteCheck(e)
    PROVE  GovernInv'
<1> USE DEF GovernInv, Gov!RouteCheck
<1>0. overlap' \in BOOLEAN /\ (~overlap' => ~overlap)
      /\ (~overlap' /\ Gov!VersionMatches(e) => ~Gov!OthersAtWork(e))
  <2>1. overlap' = (overlap \/ Gov!OthersAtWork(e)) \/ (overlap' = overlap /\ ~Gov!VersionMatches(e))
    OBVIOUS
  <2>2. overlap \in BOOLEAN
    BY DEF GovernType
  <2> HIDE DEF GovernInv, Gov!RouteCheck
  <2>3. CASE overlap' = (overlap \/ Gov!OthersAtWork(e))
    <3>1. CASE overlap \/ Gov!OthersAtWork(e)
      BY <2>2, <2>3, <3>1, Zenon
    <3>2. CASE ~(overlap \/ Gov!OthersAtWork(e))
      BY <2>2, <2>3, <3>2, Zenon
    <3> QED
      BY <3>1, <3>2
  <2> QED
    BY <2>1, <2>2, <2>3, Zenon
<1>1. GovernType'
  BY <1>0, NewChunkFacts DEF GovernType, EditState, EditSteps, Gov!Working, Gov!Ended, Gov!End
<1>2. Alone'
  <2>1. CASE Gov!VersionMatches(e)
    BY <1>0, <2>1 DEF Alone, GovernType, EditState, Gov!InFlight, Gov!Working, Gov!OthersAtWork
  <2>2. CASE ~Gov!VersionMatches(e)
    BY <1>0, <2>2 DEF Alone, GovernType, EditState, Gov!InFlight, Gov!Working, Gov!End
  <2> QED
    BY <2>1, <2>2
<1>3. Gov!NeverServesSuperseded'
  BY <1>0 DEF Gov!NeverServesSuperseded
<1>4. Marks'
  BY NewChunkFacts DEF Marks, Unmarked, Unsaved, EditSteps, Gov!Working, Gov!Ended, GovernType, EditState, Gov!End
<1>5. Missing'
  BY DEF Missing, GovernType, EditState, Gov!End
<1> QED
  BY <1>1, <1>2, <1>3, <1>4, <1>5

LEMMA PatchKeeps ==
    ASSUME GovernInv, NEW e \in Editor, Gov!Patch(e)
    PROVE  GovernInv'
<1> USE DEF GovernInv, Gov!Patch
<1>1. GovernType'
  BY NewChunkFacts, EditedFacts, ZenonT(60) DEF GovernType, EditState, EditSteps, Gov!Working, Gov!Ended, Gov!End, Patched
<1>2. Alone'
  BY EditedFacts, ZenonT(60) DEF Alone, GovernType, EditState, Gov!InFlight, Gov!Working, Gov!End, Patched
<1>3. Gov!NeverServesSuperseded'
  BY EditedFacts DEF Gov!NeverServesSuperseded, Alone, Patched, GovernType, EditState, Gov!InFlight, Gov!Working
<1>4. Marks'
  <2>1. chunk' = Patched(ed[e].copy, e) /\ ed[e].copy \in Gov!Copy
    BY DEF Patched, GovernType, EditState
  <2>2. \A f \in Editor \ {e} : Unmarked(f, ed[e].copy) => Unmarked(f, chunk')
    BY <2>1, EditedFacts
  <2>3. \A f \in Editor : ed'[f] = IF f = e THEN [ed[e] EXCEPT !.step = "ok", !.copy = Gov!NewChunk] ELSE ed[f]
    BY DEF Gov!End, GovernType, EditState
  <2>4. ed'[e].step = "ok" /\ ed'[e].copy = Gov!NewChunk
    BY <2>3 DEF GovernType, EditState
  <2>5. \A f \in Editor : ed'[f].step \in Unsaved => f # e /\ ed[f].step \in Unsaved
    BY <2>3, <2>4 DEF Unsaved
  <2> HIDE DEF Gov!Patch
  <2>6. UNCHANGED <<vector, embed>>
    BY DEF Gov!Patch
  <2> QED
    BY <2>2, <2>3, <2>4, <2>5, <2>6, NewChunkFacts DEF Marks
<1>5. Missing'
  BY DEF Missing, GovernType, EditState, Gov!End
<1> QED
  BY <1>1, <1>2, <1>3, <1>4, <1>5

LEMMA RecheckKeeps ==
    ASSUME GovernInv, NEW e \in Editor, Gov!Recheck(e)
    PROVE  GovernInv'
<1> USE DEF GovernInv, Gov!Recheck
<1>1. GovernType'
  BY NewChunkFacts DEF GovernType, EditState, EditSteps, Gov!Working, Gov!Ended, Gov!End
<1>2. Alone'
  BY DEF Alone, GovernType, EditState, Gov!InFlight, Gov!Working, Gov!End
<1>3. Gov!NeverServesSuperseded'
  BY DEF Gov!NeverServesSuperseded
<1>4. Marks'
  BY NewChunkFacts DEF Marks, Unmarked, Unsaved, EditSteps, Gov!Working, Gov!Ended, GovernType, EditState, Gov!End
<1>5. Missing'
  BY DEF Missing, GovernType, EditState, Gov!End
<1> QED
  BY <1>1, <1>2, <1>3, <1>4, <1>5

LEMMA UnindexKeeps ==
    ASSUME GovernInv, NEW e \in Editor, Gov!Unindex(e)
    PROVE  GovernInv'
<1> USE DEF GovernInv, Gov!Unindex
<1>1. GovernType'
  BY DEF GovernType, EditState, EditSteps, Gov!Working, Gov!Ended, Gov!Goto, Gov!Unindexed
<1>2. Alone'
  BY DEF Alone, GovernType, EditState, Gov!InFlight, Gov!Working, Gov!Goto, Gov!Unindexed
<1>3. Gov!NeverServesSuperseded'
  BY DEF Gov!NeverServesSuperseded, Gov!Unindexed
<1>4. Marks'
  BY DEF Marks, Unmarked, Unsaved, EditSteps, Gov!Working, Gov!Ended, GovernType, EditState, Gov!Goto, Gov!Unindexed
<1>5. Missing'
  BY DEF Missing, GovernType, EditState, Gov!Goto, Gov!Unindexed
<1> QED
  BY <1>1, <1>2, <1>3, <1>4, <1>5

LEMMA SaveKeeps ==
    ASSUME GovernInv, NEW e \in Editor, Gov!Save(e)
    PROVE  GovernInv'
<1> USE DEF GovernInv, Gov!Save
<1>1. GovernType'
  <2>1. ed \in [Editor -> EditState] /\ ed[e] \in EditState /\ ed[e].copy \in Gov!Copy
    BY DEF GovernType, EditState
  <2>2. PICK c \in Gov!Copy : c = Gov!Edited(e)
    BY <2>1, EditedFacts DEF Gov!Edited, Rewritten
  <2>3. [ed[e] EXCEPT !.step = "saved", !.copy = c] \in EditState
    BY <2>1, <2>2 DEF EditState, EditSteps, Gov!Working
  <2>4. chunk' = c /\ ed' = [ed EXCEPT ![e] = [ed[e] EXCEPT !.step = "saved", !.copy = c]]
    BY <2>1, <2>2
  <2> QED
    BY <2>1, <2>2, <2>3, <2>4 DEF GovernType
<1>2. Alone'
  BY EditedFacts DEF Alone, GovernType, EditState, Gov!InFlight, Gov!Working, Gov!Edited, Rewritten
<1>3. Gov!NeverServesSuperseded'
  BY DEF Gov!NeverServesSuperseded, Alone, GovernType, EditState
<1>4. Marks'
  BY EditedFacts DEF Marks, Unmarked, Unsaved, EditSteps, Gov!Working, Gov!Ended, GovernType, EditState, Gov!Edited, Rewritten
<1>5. Missing'
  BY DEF Missing, GovernType, EditState
<1> QED
  BY <1>1, <1>2, <1>3, <1>4, <1>5

LEMMA ReindexKeeps ==
    ASSUME GovernInv, NEW e \in Editor, Gov!Reindex(e)
    PROVE  GovernInv'
<1> USE DEF GovernInv, Gov!Reindex
<1>1. GovernType'
  BY DEF GovernType, EditState, EditSteps, Gov!Working, Gov!Ended, Gov!Goto
<1>2. Alone'
  BY DEF Alone, GovernType, EditState, Gov!InFlight, Gov!Working, Gov!Goto
<1>3. Gov!NeverServesSuperseded'
  BY DEF Gov!NeverServesSuperseded, Alone, GovernType, EditState
<1>4. Marks'
  BY DEF Marks, Unmarked, Unsaved, EditSteps, Gov!Working, Gov!Ended, GovernType, EditState, Gov!Goto
<1>5. Missing'
  BY NewChunkFacts, ZenonT(60) DEF Missing, GovernType, EditState, Gov!Goto
<1> QED
  BY <1>1, <1>2, <1>3, <1>4, <1>5

LEMMA ReindexFailsKeeps ==
    ASSUME GovernInv, NEW e \in Editor, Gov!ReindexFails(e)
    PROVE  GovernInv'
<1> USE DEF GovernInv, Gov!ReindexFails
<1>1. GovernType'
  BY NewChunkFacts DEF GovernType, EditState, EditSteps, Gov!Working, Gov!Ended, Gov!End
<1>2. Alone'
  BY DEF Alone, GovernType, EditState, Gov!InFlight, Gov!Working, Gov!End
<1>3. Gov!NeverServesSuperseded'
  BY DEF Gov!NeverServesSuperseded
<1>4. Marks'
  BY NewChunkFacts DEF Marks, Unmarked, Unsaved, EditSteps, Gov!Working, Gov!Ended, GovernType, EditState, Gov!End
<1>5. Missing'
  BY DEF Missing, GovernType, EditState, Gov!End
<1> QED
  BY <1>1, <1>2, <1>3, <1>4, <1>5

LEMMA RespondKeeps ==
    ASSUME GovernInv, NEW e \in Editor, Gov!Respond(e)
    PROVE  GovernInv'
<1> USE DEF GovernInv, Gov!Respond
<1>1. GovernType'
  BY NewChunkFacts DEF GovernType, EditState, EditSteps, Gov!Working, Gov!Ended, Gov!End
<1>2. Alone'
  BY DEF Alone, GovernType, EditState, Gov!InFlight, Gov!Working, Gov!End
<1>3. Gov!NeverServesSuperseded'
  BY DEF Gov!NeverServesSuperseded
<1>4. Marks'
  BY NewChunkFacts DEF Marks, Unmarked, Unsaved, EditSteps, Gov!Working, Gov!Ended, GovernType, EditState, Gov!End
<1>5. Missing'
  BY DEF Missing, GovernType, EditState, Gov!End
<1> QED
  BY <1>1, <1>2, <1>3, <1>4, <1>5

(* What a step of the governance does, seen from the queries. *)
LEMMA GovernStep ==
    ASSUME GovernInv,
           Gov!EmbedStage \/ \E e \in Editor : Gov!EditStep(e) \/ Gov!Respond(e)
    PROVE  GovernInv' /\ home' = home /\ (~overlap' => ~overlap)
<1>1. CASE Gov!EmbedStage
  BY <1>1, EmbedStageKeeps DEF Gov!EmbedStage
<1>2. ASSUME NEW e \in Editor, Gov!EditStep(e) \/ Gov!Respond(e)
      PROVE  GovernInv' /\ home' = home /\ (~overlap' => ~overlap)
  <2>1. GovernInv'
    BY <1>2, LookKeeps, RouteCheckKeeps, PatchKeeps, RecheckKeeps, UnindexKeeps, SaveKeeps,
       ReindexKeeps, ReindexFailsKeeps, RespondKeeps DEF Gov!EditStep
  <2>2. home' = home
    BY <1>2 DEF Gov!EditStep, Gov!Look, Gov!RouteCheck, Gov!Patch, Gov!Recheck, Gov!Unindex,
       Gov!Save, Gov!Reindex, Gov!ReindexFails, Gov!Respond
  <2>3. ~overlap' => ~overlap
    <3>1. CASE Gov!RouteCheck(e)
      <4>1. \/ overlap' = (overlap \/ Gov!OthersAtWork(e))
            \/ overlap' = overlap
        BY <3>1 DEF Gov!RouteCheck
      <4>2. CASE overlap \/ Gov!OthersAtWork(e)
        BY <4>1, <4>2, Zenon
      <4>3. CASE ~(overlap \/ Gov!OthersAtWork(e))
        BY <4>3, Zenon
      <4> QED
        BY <4>2, <4>3, Zenon
    <3>2. CASE ~Gov!RouteCheck(e)
      <4>1. overlap' = overlap
        BY <1>2, <3>2 DEF Gov!EditStep, Gov!Look, Gov!Patch, Gov!Recheck, Gov!Unindex,
           Gov!Save, Gov!Reindex, Gov!ReindexFails, Gov!Respond
      <4> QED
        BY <4>1, Zenon
    <3> QED
      BY <3>1, <3>2
  <2> QED
    BY <2>1, <2>2, <2>3
<1> QED
  BY <1>1, <1>2
-------------------------------------------------------------------------------
LEMMA QueryInitially == Init => QueryInv
<1> SUFFICES ASSUME Init PROVE QueryInv
  OBVIOUS
<1>1. q \in [Query -> QueryState] /\ \A r \in Query : q[r].step = "new" /\ q[r].from = "nothing"
  <2>1. \A b \in BOOLEAN : /\ NewQuery(b) \in QueryState
                           /\ NewQuery(b).step = "new" /\ NewQuery(b).from = "nothing"
    BY DEF NewQuery, QueryState, QuerySteps
  <2>2. q \in [Query -> {NewQuery(TRUE), NewQuery(FALSE)}]
    BY DEF Init
  <2>3. \A r \in Query : \E b \in BOOLEAN : q[r] = NewQuery(b)
    BY <2>2
  <2> QED
    BY <2>1, <2>2, <2>3
<1>2. CacheType
  BY <1>1 DEF Init, CacheType, Cache!CacheInit
<1>3. Prompted /\ Fresh /\ ExactHitsOutliveNoInvalidation
  BY <1>1 DEF Prompted, Fresh, ExactHitsOutliveNoInvalidation
<1>4. Epochs
  BY <1>1 DEF Epochs, Init, Cache!CacheInit, Cache!Epoch, EpochAfter
<1> QED
  BY <1>2, <1>3, <1>4 DEF QueryInv

(* An edit leaves the queries and the cache alone. *)
LEMMA EditKeepsQueries ==
    ASSUME QueryInv, home' = home, ~overlap' => ~overlap, UNCHANGED <<cacheVars, fast, q>>
    PROVE  QueryInv'
<1> USE DEF QueryInv, cacheVars
<1>1. CacheType'
  BY DEF CacheType
<1>2. Prompted'
  BY DEF Prompted
<1>3. Epochs'
  BY DEF Epochs, EpochAfter, Cache!Epoch
<1>4. Fresh' /\ ExactHitsOutliveNoInvalidation'
  BY DEF Fresh, ExactHitsOutliveNoInvalidation
<1> QED
  BY <1>1, <1>2, <1>3, <1>4

(* invalidate_kb, of whichever knowledge base. *)
LEMMA InvalidateKeeps ==
    ASSUME QueryInv, home' = home, ~overlap' => ~overlap, NEW k, Cache!Invalidate(k),
           UNCHANGED <<fast, q>>
    PROVE  QueryInv'
<1> USE DEF QueryInv
<1>1. CASE Cache!Fault /\ UNCHANGED <<redis, counter, exact, near, bumps>>
  <2>1. CacheType' /\ faults' # 0
    BY <1>1 DEF CacheType, Cache!Fault
  <2> QED
    BY <1>1, <2>1 DEF Prompted, Epochs, Fresh, ExactHitsOutliveNoInvalidation
<1>2. CASE /\ counter' = [counter EXCEPT ![k] = Cache!NextEpoch(k)]
           /\ exact' \in Cache!Swept(k)
           /\ bumps' = [bumps EXCEPT ![k] = @ + 1]
           /\ UNCHANGED <<redis, near, faults>>
  <2>1. exact' \subseteq exact
    BY <1>2 DEF Cache!Swept
  <2>2. k \in KB => Cache!NextEpoch(k) \in Nat
    BY DEF CacheType, Cache!NextEpoch, Cache!Epoch
  <2>3. counter' \in [KB -> Nat] /\ bumps' \in [KB -> Nat]
    <3>1. counter \in [KB -> Nat] /\ bumps \in [KB -> Nat]
      BY DEF CacheType
    <3>2. k \in KB => bumps[k] + 1 \in Nat
      BY <3>1
    <3> HIDE DEF QueryInv
    <3>3. \A j \in KB : counter'[j] \in Nat /\ bumps'[j] \in Nat
      BY <1>2, <2>2, <3>1, <3>2
    <3>4. counter' = [j \in KB |-> counter'[j]] /\ bumps' = [j \in KB |-> bumps'[j]]
      BY <1>2, <3>1
    <3> QED
      BY <3>3, <3>4
  <2>4. CacheType'
    BY <1>2, <2>1, <2>3 DEF CacheType
  <2>5. \A n : EpochAfter(n)' = EpochAfter(n)
    BY <1>2 DEF EpochAfter
  <2>6. ASSUME faults = 0, NEW j \in KB
        PROVE  Cache!Epoch(j)' = EpochAfter(bumps'[j]) /\ (redis => counter'[j] = bumps'[j])
    <3>1. Cache!Epoch(j) = EpochAfter(bumps[j]) /\ (redis => counter[j] = bumps[j])
      BY <2>6 DEF Epochs
    <3> QED
      BY <1>2, <2>6, <3>1 DEF CacheType, Cache!NextEpoch, Cache!Epoch, EpochAfter
  <2>7. Epochs'
    BY <1>2, <2>1, <2>5, <2>6 DEF Epochs
  <2> QED
    BY <1>2, <2>4, <2>7 DEF Prompted, Fresh, ExactHitsOutliveNoInvalidation
<1> QED
  BY <1>1, <1>2 DEF Cache!Invalidate

(* What Prompted, Epochs, Fresh and ExactHitsOutliveNoInvalidation ask of  *)
(* one query.                                                              *)
Sound(s) ==
    /\ s.step \notin {"new", "empty"} /\ home /\ ~overlap => s.latest
    /\ s.step = "answered" /\ s.from # "near" => s.answer = s.prompt
    /\ s.from # "nothing" => s.step = "answered"
    /\ faults = 0 =>
        /\ s.step = "lookup" => s.epoch = EpochAfter(s.seen)
        /\ s.step = "generated" => s.epoch = EpochAfter(s.stamp)
        /\ s.from = "exact" => s.stamp >= s.seen \/ (redis /\ s.seen = 1)

(* A step of query r that leaves the counters alone. *)
LEMMA OneQuery ==
    ASSUME QueryInv, NEW r \in Query, NEW s \in QueryState, q' = [q EXCEPT ![r] = s],
           UNCHANGED <<home, overlap, redis, counter, bumps>>,
           faults' = faults \/ faults' = faults + 1,
           exact' \in SUBSET Entry, near' \in SUBSET NearEntry,
           faults' = 0 => \A n \in exact' : n.epoch = EpochAfter(n.seen),
           Sound(s)'
    PROVE  QueryInv'
<1> USE DEF QueryInv
<1>1. CacheType' /\ (faults' = 0 => faults = 0)
  BY DEF CacheType
<1>2. \A t \in Query : q'[t] = IF t = r THEN s ELSE q[t]
  BY DEF CacheType
<1>3. s' = s
  OBVIOUS
<1>4. \A n : EpochAfter(n)' = EpochAfter(n)
  BY DEF EpochAfter
<1>5. Prompted'
  BY <1>2 DEF Prompted, Sound
<1>6. Fresh'
  BY <1>2 DEF Fresh, Sound
<1>7. ExactHitsOutliveNoInvalidation'
  BY <1>1, <1>2 DEF ExactHitsOutliveNoInvalidation, Sound
<1>8. Epochs'
  BY <1>1, <1>2, <1>4 DEF Epochs, Sound, Cache!Epoch, EpochAfter
<1> QED
  BY <1>1, <1>5, <1>6, <1>7, <1>8

LEMMA QueryFacts ==
    ASSUME QueryInv, NEW r \in Query
    PROVE  /\ q[r] \in QueryState /\ Sound(q[r])
           /\ exact \in SUBSET Entry /\ near \in SUBSET NearEntry /\ faults \in Nat
           /\ faults = 0 => \A n \in exact : n.epoch = EpochAfter(n.seen)
<1>1. /\ q[r] \in QueryState
      /\ exact \in SUBSET Entry /\ near \in SUBSET NearEntry /\ faults \in Nat
  BY DEF QueryInv, CacheType
<1>2. faults = 0 => /\ \A n \in exact : n.epoch = EpochAfter(n.seen)
                    /\ q[r].step = "lookup" => q[r].epoch = EpochAfter(q[r].seen)
                    /\ q[r].step = "generated" => q[r].epoch = EpochAfter(q[r].stamp)
  BY DEF QueryInv, Epochs
<1>3. /\ q[r].step \notin {"new", "empty"} /\ home /\ ~overlap => q[r].latest
      /\ q[r].step = "answered" /\ q[r].from # "near" => q[r].answer = q[r].prompt
      /\ q[r].from # "nothing" => q[r].step = "answered"
  BY DEF QueryInv, Prompted, Fresh
<1>4. faults = 0 /\ q[r].from = "exact" => q[r].stamp >= q[r].seen \/ (redis /\ q[r].seen = 1)
  BY DEF QueryInv, ExactHitsOutliveNoInvalidation
<1> QED
  BY <1>1, <1>2, <1>3, <1>4, Zenon DEF Sound

LEMMA RetrieveKeeps ==
    ASSUME IInv, NEW r \in Query, Retrieve(r)
    PROVE  QueryInv'
<1>1. /\ q[r] \in QueryState /\ Sound(q[r]) /\ q[r].step = "new"
      /\ exact \in SUBSET Entry /\ near \in SUBSET NearEntry
  BY QueryFacts DEF IInv, Retrieve
<1>2. UNCHANGED <<home, overlap, redis, counter, bumps, faults, exact, near>>
  BY DEF Retrieve, governVars, cacheVars
<1>3. faults' = 0 => \A n \in exact' : n.epoch = EpochAfter(n.seen)
  BY <1>2 DEF IInv, QueryInv, Epochs
<1>4. CASE AskedIn[r] = ChunkKb /\ vector = None
  <2> PICK s \in QueryState : s = [q[r] EXCEPT !.step = "empty"]
    BY <1>1 DEF QueryState, QuerySteps
  <2>1. q' = [q EXCEPT ![r] = s]
    BY <1>1, <1>4 DEF Retrieve
  <2>2. Sound(s)'
    BY <1>1, <1>2 DEF Sound, QueryState
  <2> QED
    BY <1>1, <1>2, <1>3, <2>1, <2>2, OneQuery DEF IInv
<1>5. CASE ~(AskedIn[r] = ChunkKb /\ vector = None)
  <2> DEFINE latest == AskedIn[r] # ChunkKb \/ Retrieved(r) = chunk.text
  <2>1. Retrieved(r) \in Gov!Text \cup {Elsewhere}
    BY <1>5 DEF Retrieved, IInv, GovernInv, GovernType, Gov!Copy
  <2>2. latest \in BOOLEAN
    OBVIOUS
  <2>3. home /\ ~overlap => latest
    BY <1>5 DEF Retrieved, IInv, GovernInv, Gov!NeverServesSuperseded
  <2>4. q' = [q EXCEPT ![r].step = "prompted", ![r].prompt = Retrieved(r), ![r].latest = latest]
    BY <1>5 DEF Retrieve
  <2> HIDE DEF latest
  <2> PICK s \in QueryState :
         s = [q[r] EXCEPT !.step = "prompted", !.prompt = Retrieved(r), !.latest = latest]
    BY <1>1, <2>1, <2>2 DEF QueryState, QuerySteps
  <2>5. q' = [q EXCEPT ![r] = s]
    BY <2>4
  <2>6. s.step = "prompted" /\ s.latest = latest /\ s.from = q[r].from
    BY <1>1 DEF QueryState
  <2>7. Sound(s)'
    BY <1>1, <1>2, <2>3, <2>6 DEF Sound
  <2> QED
    BY <1>1, <1>2, <1>3, <2>5, <2>7, OneQuery DEF IInv
<1> QED
  BY <1>4, <1>5

LEMMA UncachedKeeps ==
    ASSUME QueryInv, NEW r \in Query, Uncached(r)
    PROVE  QueryInv'
<1>1. /\ q[r] \in QueryState /\ Sound(q[r]) /\ q[r].step = "prompted"
      /\ exact \in SUBSET Entry /\ near \in SUBSET NearEntry
  BY QueryFacts DEF Uncached
<1>2. UNCHANGED <<home, overlap, redis, counter, bumps, faults, exact, near>>
  BY DEF Uncached, governVars, cacheVars
<1>3. faults' = 0 => \A n \in exact' : n.epoch = EpochAfter(n.seen)
  BY <1>2 DEF QueryInv, Epochs
<1> PICK s \in QueryState :
       s = [q[r] EXCEPT !.step = "answered", !.from = "model", !.answer = q[r].prompt]
  BY <1>1 DEF QueryState, QuerySteps
<1>4. q' = [q EXCEPT ![r] = s]
  BY DEF Uncached
<1>5. Sound(s)'
  BY <1>1, <1>2 DEF Sound, QueryState
<1> QED
  BY <1>1, <1>2, <1>3, <1>4, <1>5, OneQuery

LEMMA LookupEpochKeeps ==
    ASSUME QueryInv, NEW r \in Query, LookupEpoch(r)
    PROVE  QueryInv'
<1>1. /\ q[r] \in QueryState /\ Sound(q[r]) /\ q[r].step = "prompted"
      /\ exact \in SUBSET Entry /\ near \in SUBSET NearEntry
  BY QueryFacts DEF LookupEpoch
<1>2. PICK told \in {1, Cache!Epoch(AskedIn[r])} :
        /\ Cache!ReadEpoch(AskedIn[r], told)
        /\ q' = [q EXCEPT ![r].step = "lookup", ![r].epoch = told, ![r].seen = bumps[AskedIn[r]]]
  BY DEF LookupEpoch
<1>3. /\ UNCHANGED <<home, overlap, redis, counter, bumps, exact, near>>
      /\ (faults' = faults /\ told = Cache!Epoch(AskedIn[r])) \/ faults' = faults + 1
  BY <1>2 DEF LookupEpoch, governVars, Cache!ReadEpoch, Cache!Fault
<1>4. AskedIn[r] \in KB /\ told \in Nat /\ bumps[AskedIn[r]] \in Nat /\ faults \in Nat
  BY RetrievalAssumption DEF QueryInv, CacheType, Cache!Epoch
<1>5. faults' = 0 => faults = 0 /\ told = EpochAfter(bumps[AskedIn[r]])
  BY <1>3, <1>4 DEF QueryInv, Epochs
<1>6. faults' = 0 => \A n \in exact' : n.epoch = EpochAfter(n.seen)
  BY <1>3, <1>5 DEF QueryInv, Epochs
<1> PICK s \in QueryState :
       s = [q[r] EXCEPT !.step = "lookup", !.epoch = told, !.seen = bumps[AskedIn[r]]]
  BY <1>1, <1>4 DEF QueryState, QuerySteps
<1>7. q' = [q EXCEPT ![r] = s]
  BY <1>2
<1>8. /\ s.step = "lookup" /\ s.epoch = told /\ s.seen = bumps[AskedIn[r]]
      /\ s.from = q[r].from /\ s.latest = q[r].latest
  BY <1>1 DEF QueryState
<1>9. Sound(s)'
  BY <1>1, <1>3, <1>5, <1>8 DEF Sound, EpochAfter
<1> QED
  BY <1>1, <1>3, <1>6, <1>7, <1>9, OneQuery

LEMMA LookupExactKeeps ==
    ASSUME QueryInv, NEW r \in Query, LookupExact(r)
    PROVE  QueryInv'
<1>1. /\ q[r] \in QueryState /\ Sound(q[r]) /\ q[r].step = "lookup"
      /\ exact \in SUBSET Entry /\ near \in SUBSET NearEntry /\ faults \in Nat
      /\ faults = 0 => \A n \in exact : n.epoch = EpochAfter(n.seen)
  BY QueryFacts DEF LookupExact
<1>2. UNCHANGED <<home, overlap, redis, counter, bumps, exact, near>>
  BY DEF LookupExact, governVars, cacheVars
<1>3. faults' = faults \/ faults' = faults + 1
  BY DEF LookupExact, cacheVars, Cache!Fault
<1>4. faults' = 0 => faults = 0 /\ \A n \in exact' : n.epoch = EpochAfter(n.seen)
  BY <1>1, <1>2, <1>3
<1>5. CASE /\ \E n \in Cache!Hits(AskedIn[r], q[r].epoch, q[r].prompt) : Answer(r, "exact", n)
           /\ UNCHANGED cacheVars
  <2>1. PICK n \in exact : n.epoch = q[r].epoch /\ n.prompt = q[r].prompt /\ Answer(r, "exact", n)
    BY <1>5 DEF Cache!Hits
  <2>2. n.prompt \in Gov!Text \cup {Elsewhere} /\ n.seen \in Nat /\ q[r].seen \in Nat
    BY <1>1 DEF Entry, QueryState
  <2> PICK s \in QueryState :
         s = [q[r] EXCEPT !.step = "answered", !.from = "exact", !.answer = n.prompt,
                          !.stamp = n.seen, !.epoch = 0]
    BY <1>1, <2>2 DEF QueryState, QuerySteps
  <2>3. q' = [q EXCEPT ![r] = s]
    BY <2>1 DEF Answer
  <2>4. /\ s.step = "answered" /\ s.from = "exact" /\ s.answer = n.prompt /\ s.stamp = n.seen
        /\ s.prompt = q[r].prompt /\ s.seen = q[r].seen /\ s.latest = q[r].latest
    BY <1>1 DEF QueryState
  <2>5. faults = 0 => EpochAfter(n.seen) = EpochAfter(q[r].seen)
    BY <1>1, <2>1 DEF Sound
  <2>6. faults = 0 => n.seen >= q[r].seen \/ (redis /\ q[r].seen = 1)
    <3>1. CASE redis
      BY <2>2, <2>5, <3>1 DEF EpochAfter
    <3>2. CASE ~redis
      BY <2>2, <2>5, <3>2 DEF EpochAfter
    <3> QED
      BY <3>1, <3>2
  <2>7. Sound(s)'
    BY <1>1, <1>2, <1>4, <2>1, <2>4, <2>6 DEF Sound
  <2> QED
    BY <1>1, <1>2, <1>3, <1>4, <2>3, <2>7, OneQuery
<1>6. ASSUME NEW next \in {"generate", "near"}, q' = [q EXCEPT ![r].step = next]
      PROVE  QueryInv'
  <2> PICK s \in QueryState : s = [q[r] EXCEPT !.step = next]
    BY <1>1 DEF QueryState, QuerySteps
  <2>1. q' = [q EXCEPT ![r] = s]
    BY <1>6
  <2>2. s.step = next /\ s.from = q[r].from /\ s.latest = q[r].latest
    BY <1>1 DEF QueryState
  <2>3. Sound(s)'
    BY <1>1, <1>2, <2>2 DEF Sound
  <2> QED
    BY <1>1, <1>2, <1>3, <1>4, <2>1, <2>3, OneQuery
<1> QED
  BY <1>5, <1>6 DEF LookupExact

LEMMA LookupNearKeeps ==
    ASSUME QueryInv, NEW r \in Query, LookupNear(r)
    PROVE  QueryInv'
<1>1. /\ q[r] \in QueryState /\ Sound(q[r]) /\ q[r].step = "near"
      /\ exact \in SUBSET Entry /\ near \in SUBSET NearEntry
      /\ faults = 0 => \A n \in exact : n.epoch = EpochAfter(n.seen)
  BY QueryFacts DEF LookupNear
<1>2. UNCHANGED <<home, overlap, redis, counter, bumps, faults, exact, near>>
  BY DEF LookupNear, governVars, cacheVars
<1>3. CASE \E n \in Cache!NearHits(q[r].prompt) : Answer(r, "near", n)
  <2>1. PICK n \in near : Answer(r, "near", n)
    BY <1>3 DEF Cache!NearHits
  <2>2. n.prompt \in Gov!Text \cup {Elsewhere} /\ n.seen \in Nat
    BY <1>1 DEF NearEntry
  <2> PICK s \in QueryState :
         s = [q[r] EXCEPT !.step = "answered", !.from = "near", !.answer = n.prompt,
                          !.stamp = n.seen, !.epoch = 0]
    BY <1>1, <2>2 DEF QueryState, QuerySteps
  <2>3. q' = [q EXCEPT ![r] = s]
    BY <2>1 DEF Answer
  <2>4. s.step = "answered" /\ s.from = "near" /\ s.latest = q[r].latest
    BY <1>1 DEF QueryState
  <2>5. Sound(s)'
    BY <1>1, <1>2, <2>4 DEF Sound
  <2> QED
    BY <1>1, <1>2, <2>3, <2>5, OneQuery
<1>4. CASE q' = [q EXCEPT ![r].step = "generate"]
  <2> PICK s \in QueryState : s = [q[r] EXCEPT !.step = "generate"]
    BY <1>1 DEF QueryState, QuerySteps
  <2>1. q' = [q EXCEPT ![r] = s]
    BY <1>4
  <2>2. Sound(s)'
    BY <1>1, <1>2 DEF Sound, QueryState
  <2> QED
    BY <1>1, <1>2, <2>1, <2>2, OneQuery
<1> QED
  BY <1>3, <1>4 DEF LookupNear

LEMMA GenerateKeeps ==
    ASSUME QueryInv, NEW r \in Query, Generate(r)
    PROVE  QueryInv'
<1>1. /\ q[r] \in QueryState /\ Sound(q[r]) /\ q[r].step = "generate"
      /\ exact \in SUBSET Entry /\ near \in SUBSET NearEntry
  BY QueryFacts DEF Generate
<1>2. PICK told \in {1, Cache!Epoch(AskedIn[r])} :
        /\ Cache!ReadEpoch(AskedIn[r], told)
        /\ q' = [q EXCEPT ![r].step = "generated", ![r].epoch = told,
                          ![r].stamp = bumps[AskedIn[r]], ![r].seen = 0]
  BY DEF Generate
<1>3. /\ UNCHANGED <<home, overlap, redis, counter, bumps, exact, near>>
      /\ (faults' = faults /\ told = Cache!Epoch(AskedIn[r])) \/ faults' = faults + 1
  BY <1>2 DEF Generate, governVars, Cache!ReadEpoch, Cache!Fault
<1>4. AskedIn[r] \in KB /\ told \in Nat /\ bumps[AskedIn[r]] \in Nat /\ faults \in Nat
  BY RetrievalAssumption DEF QueryInv, CacheType, Cache!Epoch
<1>5. faults' = 0 => faults = 0 /\ told = EpochAfter(bumps[AskedIn[r]])
  BY <1>3, <1>4 DEF QueryInv, Epochs
<1>6. faults' = 0 => \A n \in exact' : n.epoch = EpochAfter(n.seen)
  BY <1>3, <1>5 DEF QueryInv, Epochs
<1> PICK s \in QueryState :
       s = [q[r] EXCEPT !.step = "generated", !.epoch = told, !.stamp = bumps[AskedIn[r]],
                        !.seen = 0]
  BY <1>1, <1>4 DEF QueryState, QuerySteps
<1>7. q' = [q EXCEPT ![r] = s]
  BY <1>2
<1>8. /\ s.step = "generated" /\ s.epoch = told /\ s.stamp = bumps[AskedIn[r]]
      /\ s.from = q[r].from /\ s.latest = q[r].latest
  BY <1>1 DEF QueryState
<1>9. Sound(s)'
  BY <1>1, <1>3, <1>5, <1>8 DEF Sound, EpochAfter
<1> QED
  BY <1>1, <1>3, <1>6, <1>7, <1>9, OneQuery

LEMMA StoreExactKeeps ==
    ASSUME QueryInv, NEW r \in Query, StoreExact(r)
    PROVE  QueryInv'
<1>1. /\ q[r] \in QueryState /\ Sound(q[r]) /\ q[r].step = "generated"
      /\ exact \in SUBSET Entry /\ near \in SUBSET NearEntry /\ faults \in Nat
      /\ faults = 0 => \A n \in exact : n.epoch = EpochAfter(n.seen)
  BY QueryFacts DEF StoreExact
<1> DEFINE stored == [kb |-> AskedIn[r], epoch |-> q[r].epoch, prompt |-> q[r].prompt,
                      seen |-> q[r].stamp]
<1>2. stored \in Entry /\ (faults = 0 => stored.epoch = EpochAfter(stored.seen))
  BY <1>1, RetrievalAssumption DEF Entry, QueryState, Sound
<1>3. /\ UNCHANGED <<home, overlap, redis, counter, bumps, near>>
      /\ faults' = faults \/ faults' = faults + 1
      /\ exact' \subseteq exact \cup {stored}
  BY DEF StoreExact, governVars, Cache!SetExact, Cache!Fault
<1> HIDE DEF stored
<1>4. exact' \in SUBSET Entry
  BY <1>1, <1>2, <1>3
<1>5. faults' = 0 => \A n \in exact' : n.epoch = EpochAfter(n.seen)
  BY <1>1, <1>2, <1>3
<1> PICK s \in QueryState : s = [q[r] EXCEPT !.step = "stored"]
  BY <1>1 DEF QueryState, QuerySteps
<1>6. q' = [q EXCEPT ![r] = s]
  BY DEF StoreExact
<1>7. s.step = "stored" /\ s.from = q[r].from /\ s.latest = q[r].latest
  BY <1>1 DEF QueryState
<1>8. Sound(s)'
  BY <1>1, <1>3, <1>7 DEF Sound
<1> QED
  BY <1>1, <1>3, <1>4, <1>5, <1>6, <1>8, OneQuery

LEMMA StoreNearKeeps ==
    ASSUME QueryInv, NEW r \in Query, StoreNear(r)
    PROVE  QueryInv'
<1>1. /\ q[r] \in QueryState /\ Sound(q[r]) /\ q[r].step = "stored"
      /\ exact \in SUBSET Entry /\ near \in SUBSET NearEntry
      /\ faults = 0 => \A n \in exact : n.epoch = EpochAfter(n.seen)
  BY QueryFacts DEF StoreNear
<1> DEFINE stored == [kb |-> AskedIn[r], prompt |-> q[r].prompt, seen |-> q[r].stamp]
<1>2. stored \in NearEntry
  BY <1>1, RetrievalAssumption DEF NearEntry, QueryState
<1>3. /\ UNCHANGED <<home, overlap, redis, counter, bumps, faults, exact>>
      /\ near' \subseteq near \cup {stored}
  BY DEF StoreNear, governVars, Cache!SetNear
<1> HIDE DEF stored
<1>4. near' \in SUBSET NearEntry
  BY <1>1, <1>2, <1>3
<1> PICK s \in QueryState :
       s = [q[r] EXCEPT !.step = "answered", !.from = "model", !.answer = q[r].prompt,
                        !.stamp = 0, !.epoch = 0]
  BY <1>1 DEF QueryState, QuerySteps
<1>5. q' = [q EXCEPT ![r] = s]
  BY DEF StoreNear, Answer
<1>6. /\ s.step = "answered" /\ s.from = "model" /\ s.answer = s.prompt
      /\ s.latest = q[r].latest
  BY <1>1 DEF QueryState
<1>7. Sound(s)'
  BY <1>1, <1>3, <1>6 DEF Sound
<1> QED
  BY <1>1, <1>3, <1>4, <1>5, <1>7, OneQuery

LEMMA ExpireKeeps == QueryInv /\ Expire => QueryInv'
<1> SUFFICES ASSUME QueryInv, Expire PROVE QueryInv'
  OBVIOUS
<1> USE DEF QueryInv
<1>1. /\ UNCHANGED <<home, overlap, redis, counter, near, bumps, faults, q>>
      /\ exact' \subseteq exact
  BY DEF Expire, Cache!Expire, governVars
<1>2. CacheType'
  BY <1>1 DEF CacheType
<1>3. Prompted' /\ Fresh' /\ ExactHitsOutliveNoInvalidation'
  BY <1>1 DEF Prompted, Fresh, ExactHitsOutliveNoInvalidation
<1>4. Epochs'
  BY <1>1 DEF Epochs, EpochAfter, Cache!Epoch
<1> QED
  BY <1>2, <1>3, <1>4

(* Nothing of the governance changes: its part of the invariant holds on.  *)
LEMMA GovernUnchanged == GovernInv /\ UNCHANGED governVars => GovernInv'
<1> SUFFICES ASSUME GovernInv, UNCHANGED governVars PROVE GovernInv'
  OBVIOUS
<1> USE DEF governVars
<1>1. GovernType' /\ Gov!NeverServesSuperseded'
  BY DEF GovernInv, GovernType, Gov!NeverServesSuperseded
<1>2. Alone'
  BY DEF GovernInv, Alone, Gov!InFlight
<1>3. Marks' /\ Missing'
  BY DEF GovernInv, Marks, Missing, Unmarked
<1> QED
  BY <1>1, <1>2, <1>3 DEF GovernInv
-------------------------------------------------------------------------------
LEMMA Inductive == IInv /\ [Next]_vars => IInv'
<1> SUFFICES ASSUME IInv, [Next]_vars PROVE IInv'
  OBVIOUS
<1>1. GovernInv /\ QueryInv
  BY DEF IInv
<1>2. CASE Edit
  <2>1. /\ Gov!EmbedStage \/ \E e \in Editor : Gov!EditStep(e) \/ Gov!Respond(e)
        /\ UNCHANGED <<cacheVars, fast, q>>
    BY <1>2 DEF Edit
  <2> QED
    BY <1>1, <2>1, GovernStep, EditKeepsQueries DEF IInv
<1>3. CASE \E e \in Editor : RespondToEdit(e)
  <2>1. /\ Gov!EmbedStage \/ \E e \in Editor : Gov!EditStep(e) \/ Gov!Respond(e)
        /\ Cache!Invalidate(ChunkKb) /\ UNCHANGED <<fast, q>>
    BY <1>3 DEF RespondToEdit
  <2>2. PICK k : k = ChunkKb
    OBVIOUS
  <2>3. Cache!Invalidate(k)
    BY <2>1, <2>2 DEF Cache!Invalidate, Cache!Swept, Cache!NextEpoch, Cache!Epoch
  <2> QED
    BY <1>1, <2>1, <2>3, GovernStep, InvalidateKeeps DEF IInv
<1>4. CASE \E r \in Query : Ask(r)
  <2>1. PICK r \in Query : Ask(r)
    BY <1>4
  <2>2. UNCHANGED governVars
    BY <2>1 DEF Ask, Retrieve, Uncached, LookupEpoch, LookupExact, LookupNear, Generate,
       StoreExact, StoreNear
  <2>3. QueryInv'
    BY <1>1, <2>1, RetrieveKeeps, UncachedKeeps, LookupEpochKeeps, LookupExactKeeps,
       LookupNearKeeps, GenerateKeeps, StoreExactKeeps, StoreNearKeeps DEF Ask
  <2> QED
    BY <1>1, <2>2, <2>3, GovernUnchanged DEF IInv
<1>5. CASE Expire
  BY <1>1, <1>5, ExpireKeeps, GovernUnchanged DEF IInv, Expire
<1>6. CASE UNCHANGED vars
  <2>1. UNCHANGED governVars /\ UNCHANGED <<cacheVars, fast, q>> /\ UNCHANGED home /\ UNCHANGED overlap
    BY <1>6 DEF vars, governVars
  <2> QED
    BY <1>1, <2>1, GovernUnchanged, EditKeepsQueries DEF IInv
<1> QED
  BY <1>2, <1>3, <1>4, <1>5, <1>6 DEF Next

(* Every reachable state satisfies the inductive invariant: the steps of   *)
(* the PUT and PATCH handlers, of the embedding stage, of the semantic     *)
(* cache and of the queries, in any interleaving.                          *)
THEOREM GovernedInvariant == Spec => []IInv
<1>1. Init => IInv
  BY GovernInitially, QueryInitially DEF Init, IInv
<1> QED
  BY <1>1, Inductive, PTL DEF Spec

(* incremental_reindex deletes the vector before it saves the row: while   *)
(* no two writers overlap, retrieval never finds a text the row has lost.  *)
THEOREM SupersededIsNeverServed == Spec => []NeverServesSuperseded
<1>1. IInv => NeverServesSuperseded
  BY DEF IInv, GovernInv, NeverServesSuperseded
<1> QED
  BY <1>1, GovernedInvariant, PTL

(* An edit refused with 3002 has left nothing in either copy, however the  *)
(* handlers that did save interleaved with it.                             *)
THEOREM RefusalsLeaveNoTrace == Spec => []RefusedLeavesNoTrace
<1>1. IInv => RefusedLeavesNoTrace
  <2>1. "conflict" \in Unsaved
    BY DEF Unsaved, EditSteps, Gov!Ended
  <2> QED
    BY <2>1 DEF IInv, GovernInv, Marks, Unmarked, RefusedLeavesNoTrace, Gov!RefusedLeavesNoTrace
<1> QED
  BY <1>1, GovernedInvariant, PTL

(* When every edit is over and none ended with an error, the chunk has a   *)
(* vector: overlapping edits' deletes never outlive the last upsert.       *)
THEOREM EditedStaysSearchable == Spec => []EditsKeepTheChunkSearchable
<1>1. IInv => EditsKeepTheChunkSearchable
  BY DEF IInv, GovernInv, Missing, EditsKeepTheChunkSearchable, Gov!EditsKeepTheChunkSearchable,
     Gov!Quiet, Gov!InFlight, Gov!Working
<1> QED
  BY <1>1, GovernedInvariant, PTL

(* An answer from the model or the exact tier is one to the row's text at  *)
(* retrieval time, while no two writers of the chunk overlapped.           *)
THEOREM AnswersComeFromTheRow == Spec => []AnsweredFromTheRow
<1>1. IInv => AnsweredFromTheRow
  BY DEF IInv, QueryInv, Prompted, AnsweredFromTheRow
<1> QED
  BY <1>1, GovernedInvariant, PTL

(* An exact hit was stored after the last invalidation its lookup knew of, *)
(* save for the first one of a Redis counter, unless a Redis call failed.  *)
THEOREM ExactHitsAreCurrent == Spec => []ExactHitsOutliveNoInvalidation
<1>1. IInv => ExactHitsOutliveNoInvalidation
  BY DEF IInv, QueryInv
<1> QED
  BY <1>1, GovernedInvariant, PTL
===============================================================================
