---------------------------- MODULE PagedMemory ----------------------------
(***************************************************************************)
(* What a virtual memory promises the program, with no frame, TLB or swap  *)
(* in sight: pages that start as zeros and hold what was last stored in    *)
(* them, and loads that return what the page holds.  With MayLose a step   *)
(* may also turn one page, other than the one it accesses, back into       *)
(* zeros: the weaker promise a memory that drops pages still keeps.        *)
(***************************************************************************)
CONSTANTS
  Pages,     \* virtual pages
  Contents,  \* what a page can hold
  Zero,      \* the contents of a page never stored to
  NoAccess,  \* no access was made yet
  MayLose    \* whether a step may lose a page

VARIABLES
  page,      \* contents of each page
  access     \* the last access: its page, direction and contents

Init == page = [v \in Pages |-> Zero] /\ access = NoAccess

(* The pages a step may lose: none, or one. *)
Losses == IF MayLose THEN {{}} \cup {{u} : u \in Pages} ELSE {{}}

After(lost) == [v \in Pages |-> IF v \in lost THEN Zero ELSE page[v]]

Load(v, lost) ==
  /\ v \notin lost
  /\ page' = After(lost)
  /\ access' = [page |-> v, store |-> FALSE, contents |-> page[v]]

Store(v, c, lost) ==
  /\ v \notin lost
  /\ page' = [After(lost) EXCEPT ![v] = c]
  /\ access' = [page |-> v, store |-> TRUE, contents |-> c]

(* The access failed, after it had made room for its page. *)
Fail(lost) == page' = After(lost) /\ UNCHANGED access

Next ==
  \E lost \in Losses :
    \/ \E v \in Pages : \/ Load(v, lost)
                        \/ \E c \in Contents : Store(v, c, lost)
    \/ Fail(lost)

Spec == Init /\ [][Next]_<<page, access>>
=============================================================================
