------------------------------ MODULE UcosFlag ------------------------------
(***************************************************************************)
(* Event flag groups (uC-OS2/Source/os_flag.c) among tasks that are created  *)
(* and deleted (UcosTaskLife).                                              *)
(*                                                                         *)
(* A waiting task has an OS_FLAG_NODE on its stack, which is named here by   *)
(* the task.  Nodes form the doubly linked wait list of their group; while a *)
(* group is unused, OSFlagWaitList links it to the next unused group.       *)
(* OS_FlagUnlink does not clear the links of the node it takes out.          *)
(*                                                                         *)
(* The type of a group is checked before the critical section of a service.  *)
(* Applications delete a group only while no call is between the two, so     *)
(* that the check and the section are one step.  OSFlagQuery only reads, and *)
(* so does OSFlagPendGetFlagsRdy, for which alone OSTCBFlagsRdy outlives the *)
(* call of OSFlagPend: here it does not.                                    *)
(*                                                                         *)
(* As in UcosCore, a mutant is the definition that follows it with a bug.   *)
(***************************************************************************)
EXTENDS UcosTaskLife, SequencesExt

CONSTANTS
  OSFlagTbl,   \* the groups, in the order of the table
  CreatedGrps, \* those that main has created, a prefix of the table
  Flag,        \* the flags of a group
  Need,        \* the conditions applications wait for: flags, wait type, consumption
  Posts,       \* what applications post: flags, and whether to set them
  DelOpts      \* the options applications pass to OSFlagDel

Group == Range(OSFlagTbl)

ASSUME FlagAssumption ==
  /\ IsInjective(OSFlagTbl) /\ Group \cap (Task \cup {Null}) = {}
  /\ Need \subseteq [flags : SUBSET Flag, set : BOOLEAN, all : BOOLEAN, consume : BOOLEAN]
  /\ Posts \subseteq [flags : SUBSET Flag, set : BOOLEAN]

VARIABLES
  OSFlagType,      \* per group: "FLAG" or "UNUSED"
  OSFlagFlags,     \* per group: the flags that are set
  OSFlagWaitList,  \* per group: its first node, or the next unused group
  OSFlagFreeList,  \* the first unused group, or Null
  node,            \* per task: the fields of its node
  OSTCBFlagNode,   \* per task: whether its OS_TCB points to its node
  OSTCBFlagsRdy    \* per task in OSFlagPend: the flags that released it

\* The node of a task that is not in OSFlagPend: it is gone with the stack frame.
NoNode == [need |-> Null, next |-> Null, prev |-> Null, grp |-> Null]

flagVars == <<OSFlagType, OSFlagFlags, OSFlagWaitList, OSFlagFreeList, node, OSTCBFlagNode,
              OSTCBFlagsRdy>>
vars == <<coreVars, chainVars, flagVars>>

-----------------------------------------------------------------------------
(* Conditions.                                                             *)

\* The flags that need names and that are as it wants them.
FlagsRdy(need, flags) == IF need.set THEN flags \cap need.flags ELSE need.flags \ flags

\* Mutant: one flag of several is enough.
Satisfied_Any(need, flags) == FlagsRdy(need, flags) # {}

Satisfied(need, flags) ==
  IF need.all THEN FlagsRdy(need, flags) = need.flags ELSE FlagsRdy(need, flags) # {}

\* The flags when those in rdy have been consumed.
Consumed(need, flags, rdy) ==
  IF ~need.consume THEN flags ELSE IF need.set THEN flags \ rdy ELSE flags \cup rdy

-----------------------------------------------------------------------------
(* Wait lists, as records [first, node, linked] of OSFlagWaitList, node and  *)
(* OSTCBFlagNode.                                                          *)

Lists == [first |-> OSFlagWaitList, node |-> node, linked |-> OSTCBFlagNode]

ListsBecome(l) ==
  OSFlagWaitList' = l.first /\ node' = l.node /\ OSTCBFlagNode' = l.linked

\* The stack frame of OSFlagPend of task t ends, with these lists.
LeavePend(l, t) ==
  /\ ListsBecome([l EXCEPT !.node[t] = NoNode])
  /\ OSTCBFlagsRdy' = [OSTCBFlagsRdy EXCEPT ![t] = {}]

\* Mutant: the node behind the first keeps its OSFlagNodePrev.
OS_FlagUnlink_NoPrev(l, t) ==
  LET prev == l.node[t].prev
      next == l.node[t].next
  IN  [first |-> IF prev = Null THEN [l.first EXCEPT ![l.node[t].grp] = next] ELSE l.first,
       node |-> [u \in Task |->
         IF u = prev THEN [l.node[u] EXCEPT !.next = next] ELSE l.node[u]],
       linked |-> [l.linked EXCEPT ![t] = FALSE]]

\* Take the node of t off the list it is in, or was in.
OS_FlagUnlink(l, t) ==
  LET prev == l.node[t].prev
      next == l.node[t].next
  IN  [first |-> IF prev = Null THEN [l.first EXCEPT ![l.node[t].grp] = next] ELSE l.first,
       node |-> [u \in Task |->
         IF u = prev THEN [l.node[u] EXCEPT !.next = next]
         ELSE IF u = next THEN [l.node[u] EXCEPT !.prev = prev]
         ELSE l.node[u]],
       linked |-> [l.linked EXCEPT ![t] = FALSE]]

\* The nodes on the list of group g, from the first.
Waiters(g) ==
  LET from[n \in Task \cup {Null}, k \in 0 .. Cardinality(Task)] ==
        IF n = Null \/ k = 0 THEN <<>> ELSE <<n>> \o from[node[n].next, k - 1]
  IN  from[OSFlagWaitList[g], Cardinality(Task)]

\* OS_FlagTaskRdy for the tasks of list, which got the flags got[t], but for the
\* lists.
OS_FlagTaskRdy(list, got, pendStat) ==
  LET in(t) == t \in Range(list)
  IN  /\ OSTCBDly' = [t \in Task |-> IF in(t) THEN 0 ELSE OSTCBDly[t]]
      /\ OSTCBFlagsRdy' = [t \in Task |-> IF in(t) THEN got[t] ELSE OSTCBFlagsRdy[t]]
      /\ OSTCBStat' = [t \in Task |->
           IF in(t) THEN OSTCBStat[t] \ {"FLAG"} ELSE OSTCBStat[t]]
      /\ OSTCBStatPend' = [t \in Task |-> IF in(t) THEN pendStat ELSE OSTCBStatPend[t]]
      /\ MakeReady(Range(list))

\* The lists when OS_FlagTaskRdy has taken out the nodes of list in turn.
AllUnlinked(list) == FoldLeft(OS_FlagUnlink, Lists, list)

\* The tasks of list that OS_FlagTaskRdy has put on the ready list.
Readied(list) == {t \in Range(list) : OSTCBStat[t] \subseteq {"FLAG"}}

-----------------------------------------------------------------------------
(* The services.                                                           *)

IsGroup(g) == OSFlagType[g] = "FLAG"

\* The caller's condition is met: no need to wait.
TakeFlags(g, need) ==
  /\ IsGroup(g)
  /\ Satisfied(need, OSFlagFlags[g])
  /\ OSFlagFlags' = [OSFlagFlags EXCEPT ![g] = Consumed(need, @, FlagsRdy(need, @))]
  /\ UNCHANGED <<coreVars, chainVars, OSFlagType, OSFlagWaitList, OSFlagFreeList, node,
                 OSTCBFlagNode, OSTCBFlagsRdy>>

OSFlagAccept(g, need) ==
  /\ Call("OSFlagAccept")
  /\ TakeFlags(g, need)

OSFlagPend_Ready(g, need) ==
  /\ TaskCall("OSFlagPend")
  /\ OSLockNesting = 0
  /\ TakeFlags(g, need)

\* OS_FlagBlock: the node of the caller goes in front of the list.
OSFlagPend_Block(g, need, timeout) ==
  LET t == OSTCBCur
      first == OSFlagWaitList[g]
  IN  /\ TaskCall("OSFlagPend")
      /\ OSLockNesting = 0
      /\ IsGroup(g)
      /\ ~Satisfied(need, OSFlagFlags[g])
      /\ OSTCBStat' = [OSTCBStat EXCEPT ![t] = @ \cup {"FLAG"}]
      /\ OSTCBStatPend' = [OSTCBStatPend EXCEPT ![t] = "OK"]
      /\ OSTCBDly' = [OSTCBDly EXCEPT ![t] = timeout]
      /\ OSTCBFlagNode' = [OSTCBFlagNode EXCEPT ![t] = TRUE]
      /\ node' = [u \in Task |->
           IF u = t THEN [need |-> need, next |-> first, prev |-> Null, grp |-> g]
           ELSE IF u = first THEN [node[u] EXCEPT !.prev = t]
           ELSE node[u]]
      /\ OSFlagWaitList' = [OSFlagWaitList EXCEPT ![g] = t]
      /\ OSRdy' = OSRdy \ {OSTCBPrio[t]}
      /\ GoTo("OSPend_Sched", g)
      /\ UNCHANGED <<OSTCBPrio, OSTCBEventPtr, OSTCBPrioTbl, eventVars, switchVars, nestVars,
                     tickVars, chainVars, OSFlagType, OSFlagFlags, OSFlagFreeList,
                     OSTCBFlagsRdy>>

\* The end of a pend that blocked: it consumes what it was released for, or takes
\* its node off the list after a timeout or an abort.
OSFlagPend_Tail ==
  LET t == OSTCBCur
  IN  /\ InTask("OSPend_Tail")
      /\ IF OSTCBStatPend[t] = "OK"
           THEN /\ OSFlagFlags' = [OSFlagFlags EXCEPT
                     ![pevent[t]] = Consumed(node[t].need, @, OSTCBFlagsRdy[t])]
                /\ LeavePend(Lists, t)
                /\ UNCHANGED <<OSTCBStat, OSTCBStatPend>>
           ELSE /\ OSTCBStatPend' = [OSTCBStatPend EXCEPT ![t] = "OK"]
                /\ OSTCBStat' = [OSTCBStat EXCEPT ![t] = {}]
                /\ LeavePend(OS_FlagUnlink(Lists, t), t)
                /\ UNCHANGED OSFlagFlags
      /\ Returns(FALSE)
      /\ UNCHANGED <<OSTCBPrio, OSTCBDly, OSTCBEventPtr, readyVars, eventVars, switchVars,
                     nestVars, tickVars, chainVars, OSFlagType, OSFlagFreeList>>

\* Mutant: the walk ends at the first task it releases.
ReleasedBy_First(g, flags) ==
  LET met == SelectSeq(Waiters(g), LAMBDA t : Satisfied(node[t].need, flags))
  IN  IF met = <<>> THEN <<>> ELSE <<met[1]>>

\* The waiters whose conditions flags meet, in the order of the list.
ReleasedBy(g, flags) == SelectSeq(Waiters(g), LAMBDA t : Satisfied(node[t].need, flags))

\* Set or clear flags and release every task whose condition they meet.
OSFlagPost(g, post) ==
  LET flags == IF post.set THEN OSFlagFlags[g] \cup post.flags
                           ELSE OSFlagFlags[g] \ post.flags
      released == ReleasedBy(g, flags)
  IN  /\ Call("OSFlagPost")
      /\ IsGroup(g)
      /\ OSFlagFlags' = [OSFlagFlags EXCEPT ![g] = flags]
      /\ OS_FlagTaskRdy(released,
                        [t \in Range(released) |-> FlagsRdy(node[t].need, flags)], "OK")
      /\ ListsBecome(AllUnlinked(released))
      /\ Returns(Readied(released) # {})
      /\ UNCHANGED <<OSTCBPrio, OSTCBEventPtr, OSTCBPrioTbl, eventVars, switchVars, nestVars,
                     tickVars, chainVars, OSFlagType, OSFlagFreeList>>

OSFlagCreate(flags) ==
  LET g == OSFlagFreeList
  IN  /\ TaskCall("OSFlagCreate")
      /\ g # Null
      /\ OSFlagFreeList' = OSFlagWaitList[g]
      /\ OSFlagType' = [OSFlagType EXCEPT ![g] = "FLAG"]
      /\ OSFlagFlags' = [OSFlagFlags EXCEPT ![g] = flags]
      /\ OSFlagWaitList' = [OSFlagWaitList EXCEPT ![g] = Null]
      /\ UNCHANGED <<coreVars, chainVars, node, OSTCBFlagNode, OSTCBFlagsRdy>>

\* A group with waiters is deleted only by OS_DEL_ALWAYS, which aborts them.
OSFlagDel(g, opt) ==
  LET list == Waiters(g)
  IN  /\ TaskCall("OSFlagDel")
      /\ IsGroup(g)
      /\ opt = "OS_DEL_ALWAYS" \/ list = <<>>
      /\ OS_FlagTaskRdy(list, [t \in Range(list) |-> {}], "ABORT")
      /\ ListsBecome([AllUnlinked(list) EXCEPT !.first[g] = OSFlagFreeList])
      /\ OSFlagType' = [OSFlagType EXCEPT ![g] = "UNUSED"]
      /\ OSFlagFlags' = [OSFlagFlags EXCEPT ![g] = {}]
      /\ OSFlagFreeList' = g
      /\ Returns(list # <<>>)
      /\ UNCHANGED <<OSTCBPrio, OSTCBEventPtr, OSTCBPrioTbl, eventVars, switchVars, nestVars,
                     tickVars, chainVars>>

\* Mutant: the node of the deleted task stays on the list.
OSTaskDel_NodeKept(prio) ==
  LET t == OSTCBPrioTbl[prio]
  IN  /\ OSTaskDel_Begin(prio)
      /\ LeavePend([Lists EXCEPT !.linked[t] = FALSE], t)
      /\ UNCHANGED <<OSFlagType, OSFlagFlags, OSFlagFreeList>>

\* The first half of OSTaskDel, which takes the task from the list it waits on.
OSTaskDel(prio) ==
  LET t == OSTCBPrioTbl[prio]
  IN  /\ OSTaskDel_Begin(prio)
      /\ LeavePend(IF OSTCBFlagNode[t] THEN OS_FlagUnlink(Lists, t) ELSE Lists, t)
      /\ UNCHANGED <<OSFlagType, OSFlagFlags, OSFlagFreeList>>

\* OS_TCBInit, which also clears OSTCBFlagNode.
OS_TCBInit_Flag ==
  /\ OS_TCBInit
  /\ OSTCBFlagNode' = IF OSTCBFreeList = Null THEN OSTCBFlagNode
                      ELSE [OSTCBFlagNode EXCEPT ![OSTCBFreeList] = FALSE]
  /\ UNCHANGED <<OSFlagType, OSFlagFlags, OSFlagWaitList, OSFlagFreeList, node, OSTCBFlagsRdy>>

-----------------------------------------------------------------------------

\* OS_FlagInit, and the groups main creates.
FlagInit ==
  /\ OSFlagType = [g \in Group |-> IF g \in CreatedGrps THEN "FLAG" ELSE "UNUSED"]
  /\ OSFlagFlags = [g \in Group |-> {}]
  /\ LET unused == SelectSeq(OSFlagTbl, LAMBDA g : g \notin CreatedGrps)
     IN  /\ OSFlagFreeList = IF unused = <<>> THEN Null ELSE unused[1]
         /\ OSFlagWaitList = [g \in Group |->
              IF g \notin CreatedGrps /\ g # Last(OSFlagTbl)
                THEN OSFlagTbl[1 + CHOOSE i \in DOMAIN OSFlagTbl : OSFlagTbl[i] = g]
                ELSE Null]
  /\ node = [t \in Task |-> NoNode]
  /\ OSTCBFlagNode = [t \in Task |-> FALSE]
  /\ OSTCBFlagsRdy = [t \in Task |-> {}]

Init ==
  /\ LifeInit
  /\ FlagInit
  /\ OSEventType = [e \in Event |-> "UNUSED"]

Next ==
  \/ LifeCoreNext /\ UNCHANGED flagVars
  \/ \E prio \in 0 .. OS_LOWEST_PRIO - 1 : OSTaskCreate(prio) /\ UNCHANGED flagVars
  \/ OS_TCBInit_Flag
  \/ (OS_TCBInit_Table \/ OS_TCBInit_Link \/ OSTaskCreate_Fail) /\ UNCHANGED flagVars
  \/ \E prio \in Prio : OSTaskDel(prio)
  \/ OSTaskDel_End /\ UNCHANGED flagVars
  \/ \E g \in Group :
       \/ \E need \in Need :
            \/ OSFlagAccept(g, need)
            \/ OSFlagPend_Ready(g, need)
            \/ \E timeout \in 0 .. MaxDly : OSFlagPend_Block(g, need, timeout)
       \/ \E post \in Posts : OSFlagPost(g, post)
       \/ \E opt \in DelOpts : OSFlagDel(g, opt)
  \/ OSFlagPend_Tail
  \/ OSFlagCreate({})

Spec == Init /\ [][Next]_vars

-----------------------------------------------------------------------------
(* Properties.                                                             *)

\* Every variable has its type.
TypeOK ==
  /\ TcbTypeOK /\ SwitchTypeOK
  /\ OSRdy \subseteq Prio /\ OSTCBPrioTbl \in [Prio -> Task \cup {Null, OS_TCB_RESERVED}]
  /\ OSLockNesting \in 0 .. MaxLock + 1 /\ OSTaskCtr \in 0 .. Cardinality(Task)
  /\ OSTCBNext \in [Task -> Task \cup {Null}] /\ OSTCBPrev \in [Task -> Task \cup {Null}]
  /\ OSTCBFirst \in Task /\ OSTCBFreeList \in Task \cup {Null}
  /\ OSFlagType \in [Group -> {"FLAG", "UNUSED"}]
  /\ OSFlagFlags \in [Group -> SUBSET Flag]
  /\ OSFlagWaitList \in [Group -> Group \cup Task \cup {Null}]
  /\ OSFlagFreeList \in Group \cup {Null}
  /\ node \in [Task -> [need : Need \cup {Null}, next : Task \cup {Null},
                        prev : Task \cup {Null}, grp : Group \cup {Null}]]
  /\ OSTCBFlagNode \in [Task -> BOOLEAN] /\ OSTCBFlagsRdy \in [Task -> SUBSET Flag]

\* The wait list of a group holds exactly the nodes whose tasks point to them: the
\* tasks that wait, or have timed out and not yet run.  OSFlagPost, timeouts and
\* OSTaskDel take nodes out in any order, and no node outlives its task's stack.
FlagListSound ==
  /\ TypeOK
  /\ \A g \in Group : IsGroup(g) =>
      LET list == Waiters(g)
      IN  /\ Range(list) = {t \in Task : OSTCBFlagNode[t] /\ node[t].grp = g}
          /\ IsInjective(list)
          /\ \A i \in DOMAIN list :
               node[list[i]].prev = IF i = 1 THEN Null ELSE list[i - 1]

\* Nobody waits for what is the case already.
NoSatisfiedWaiter ==
  \A t \in Task : "FLAG" \in OSTCBStat[t] =>
    ~Satisfied(node[t].need, OSFlagFlags[node[t].grp])

\* The unused groups are the ones OSFlagFreeList leads to, by links that hold no
\* node: "Pointer to free list of event flag groups" (ucos_ii.h).
GroupsPartitioned ==
  LET Leads(S) == /\ OSFlagFreeList # Null => OSFlagFreeList \in S
                  /\ \A g \in S : OSFlagWaitList[g] # Null => OSFlagWaitList[g] \in S
  IN  {g \in Group : \A S \in SUBSET Group : Leads(S) => g \in S} =
        {g \in Group : OSFlagType[g] = "UNUSED"}

\* Where task t stands with group g: the mapping to the status of EventFlags.
FlagStatus(t, g) ==
  IF pc[t] \in {"OSPend_Sched", "OSPend_Tail"} /\ node[t].grp = g /\ t \notin BeingDeleted
    THEN [at |-> IF ~OSTCBFlagNode[t] THEN "released"
                 ELSE IF OSTCBStatPend[t] = "TO" THEN "timedout" ELSE "waiting",
          need |-> node[t].need,
          got |-> IF OSTCBFlagNode[t] THEN {} ELSE OSTCBFlagsRdy[t]]
    ELSE [at |-> "idle", need |-> Null, got |-> {}]
=============================================================================
