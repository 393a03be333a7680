----------------------------- MODULE HeapStore ------------------------------
(***************************************************************************)
(* What a heap file promises: a table of records addressed by RIDs.  An    *)
(* insert picks a RID no record has; a RID keeps its record until that     *)
(* record is deleted or its page is vacuumed; vacuum renumbers the records *)
(* of each page from slot 0, keeping their order, and a vacuum that fails  *)
(* has done so on the pages before some page.  Records become durable page *)
(* by page; a crash leaves what is durable.                                *)
(***************************************************************************)
EXTENDS Naturals, FiniteSets, Functions

CONSTANTS Records, MaxPages, MaxSlots

RIDs == (0 .. MaxPages - 1) \X (0 .. MaxSlots - 1)

VARIABLES live, saved

heapVars == <<live, saved>>

NoRecords == [rid \in {} |-> {}]

HeapInit == live = NoRecords /\ saved = NoRecords

Insert(rid, r) ==
  /\ rid \notin DOMAIN live
  /\ live' = [x \in DOMAIN live \cup {rid} |-> IF x = rid THEN r ELSE live[x]]
  /\ UNCHANGED saved

(* A RID may have no record any more.                                      *)
Delete(rid) ==
  /\ live' = Restrict(live, DOMAIN live \ {rid})
  /\ UNCHANGED saved

(* The pages before page n are vacuumed: the slot a record has then is the *)
(* number of records before it.                                            *)
Vacuum(n) ==
  LET old == live
      Rank(rid) == Cardinality({x \in DOMAIN old : x[1] = rid[1] /\ x[2] < rid[2]})
      Moved(rid) == IF rid[1] < n THEN <<rid[1], Rank(rid)>> ELSE rid
  IN
  /\ live' = [x \in {Moved(rid) : rid \in DOMAIN old} |-> old[CHOOSE rid \in DOMAIN old : Moved(rid) = x]]
  /\ UNCHANGED saved

(* Pages W become durable.                                                 *)
WriteBack(W) ==
  LET written == {x \in DOMAIN live : x[1] \in W}
      kept == {x \in DOMAIN saved : x[1] \notin W}
  IN saved' = [x \in written \cup kept |-> IF x[1] \in W THEN live[x] ELSE saved[x]]

CrashHeap ==
  /\ live' = saved
  /\ UNCHANGED saved

HeapNext ==
  \/ \E rid \in RIDs, r \in Records : Insert(rid, r)
  \/ \E rid \in RIDs : Delete(rid)
  \/ \E n \in 0 .. MaxPages : Vacuum(n)
  \/ \E W \in SUBSET (0 .. MaxPages - 1) : WriteBack(W) /\ UNCHANGED live
  \/ CrashHeap

HeapSpec == HeapInit /\ [][HeapNext]_heapVars

=============================================================================
