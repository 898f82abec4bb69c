-------------------------------- MODULE Ipc --------------------------------
(***************************************************************************)
(* The list of threads that wait for a kernel object (ipc.c).  A thread is *)
(* suspended exactly while it is in such a list: Scheduler shows that the  *)
(* rest of the kernel keeps the two together.                              *)
(***************************************************************************)
EXTENDS Integers, Sequences, SequencesExt

(* Mutant of ListSuspend: the priority flag is ignored.                    *)
ListAppend(list, t, flag, pr) == Append(list, t)

(* rt_ipc_list_suspend: at the end, or, with RT_IPC_FLAG_PRIO, before the  *)
(* first thread that is less urgent.                                       *)
ListSuspend(list, t, flag, pr) ==
  LET i == SelectInSeq(list, LAMBDA u : pr[t] < pr[u])
  IN  IF flag = "PRIO" /\ i # 0 THEN InsertAt(list, i, t) ELSE Append(list, t)

(* rt_ipc_get_highest_priority                                             *)
ListHighest(list, pr, max) ==
  Min({max - 1} \cup {pr[list[i]] : i \in DOMAIN list})
=============================================================================
