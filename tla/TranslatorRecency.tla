------------------------- MODULE TranslatorRecency -------------------------
(***************************************************************************)
(* AddressTranslator with a history variable: the pages the program has    *)
(* accessed, least recently accessed first, kept outside the code's own    *)
(* recency lists so that the TLB's choice of a slot can be compared with   *)
(* what "least recently used" means to the program.                        *)
(***************************************************************************)
EXTENDS AddressTranslator

VARIABLE accessed  \* pages in order of their last access

HInit == Init /\ accessed = << >>

HNext ==
  \E v \in VPNs, write \in Stores :
    /\ \E c \in IF write /\ ByteLevel THEN Contents ELSE {Zero} :
         Translate(v, write, c)
    /\ accessed' = MoveToBack(accessed, v)

hvars == <<vars, accessed>>

HSpec == HInit /\ [][HNext]_hvars

(* x comes before y in a list. *)
Before(list, x, y) == \E i, j \in DOMAIN list : i < j /\ list[i] = x /\ list[j] = y

(* The TLB displaces the entry the program used longest ago: of two slots  *)
(* in its recency list the one that comes first holds the page the program *)
(* has accessed less recently, through hits, refills, reuse of an          *)
(* invalidated slot and invalidations (tlb.py:69-74, 88-114, 139-140,      *)
(* 148-156).                                                               *)
TLBOrderIsRecency ==
  \A i, j \in Slots :
    Before(tlb.order, i, j) => Before(accessed, tlb.entries[i].vpn, tlb.entries[j].vpn)
=============================================================================
