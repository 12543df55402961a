----------------------------- MODULE Directory ------------------------------
(***************************************************************************)
(* What a directory of names promises the rest of the daemon: a key has at *)
(* most one holder, a holder has at most one key, and a key is never       *)
(* passed on: it is free for a moment between two holders.  Who asks, what *)
(* is counted and what an error is called are left to Registry, which      *)
(* implements this specification.                                          *)
(***************************************************************************)
CONSTANTS Keys, Holders, Nobody

VARIABLE holder

DirectoryInit == holder = [k \in Keys |-> Nobody]

(* A key that is free is given to a holder that has none.                  *)
Claim(k, h) ==
  /\ holder[k] = Nobody
  /\ \A j \in Keys : holder[j] # h
  /\ holder' = [holder EXCEPT ![k] = h]

(* A key that is held becomes free.                                        *)
Release(k) ==
  /\ holder[k] # Nobody
  /\ holder' = [holder EXCEPT ![k] = Nobody]

DirectoryNext == \E k \in Keys : Release(k) \/ \E h \in Holders : Claim(k, h)

DirectorySpec == DirectoryInit /\ [][DirectoryNext]_holder
=============================================================================
