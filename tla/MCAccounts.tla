---- MODULE MCAccounts ----
(***************************************************************************)
(* TLC instance of Accounts.                                               *)
(***************************************************************************)
EXTENDS Accounts, TLC

Symmetric == Permutations(User) \cup Permutations(Thread) \cup Permutations(Token)

\* The view: the state without what neither a step nor a property tells apart.
Kind(permission) ==
    IF permission = "reveal:approve" THEN "cases:read" ELSE permission

Audited(a) == \E e \in signedIn : e.user = a.user

Stored == {s.token : s \in sessions}

Abstracted ==
    <<users, sessions,
      {e \in signedIn : e.token \in Stored}, {e.user : e \in signedIn},
      [t \in Thread |-> [handler[t] EXCEPT !.permission = Kind(@)]],
      tokens, held, ended \cap Stored,
      [u \in User |-> IF u \in overlapped THEN 0 ELSE missed[u]], due, overlapped,
      {[a EXCEPT !.permission = Kind(@)] :
          a \in {b \in acts : b.permission # "audit:read" \/ ~Audited(b)}}>>
====
