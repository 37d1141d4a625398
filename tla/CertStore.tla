----------------------------- MODULE CertStore -----------------------------
(***************************************************************************)
(* What cert-proxy-client promises to the readers of a domain's directory, *)
(* whatever happens to the client: under each stable name there is either  *)
(* nothing or one complete version the server has published, and a step    *)
(* replaces one name at a time.  When Ordered, a name never goes back to   *)
(* an older version.                                                       *)
(***************************************************************************)
EXTENDS Naturals

CONSTANTS
    Names,      \* the stable names
    Ordered     \* do replacements respect the order of publication?

VARIABLES
    published,  \* published[n]: the number of versions published for n
    exposed     \* exposed[n]: the version a reader of n gets, 0 for none

Init ==
    /\ published = [n \in Names |-> 1]
    /\ exposed = [n \in Names |-> 0]

Publish(n) ==
    /\ published' = [published EXCEPT ![n] = @ + 1]
    /\ UNCHANGED exposed

Replace(n) ==
    /\ \E v \in 1..published[n] :
          /\ Ordered => v >= exposed[n]
          /\ exposed' = [exposed EXCEPT ![n] = v]
    /\ UNCHANGED published

Next == \E n \in Names : Publish(n) \/ Replace(n)

Spec == Init /\ [][Next]_<<published, exposed>>

=============================================================================
