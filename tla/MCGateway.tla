----------------------------- MODULE MCGateway ------------------------------
(***************************************************************************)
(* TLC instance of Gateway: the API key, tokens of an administrator (with  *)
(* a wrong key) and of a developer (without a role claim), and credentials *)
(* that fail in one respect each.                                          *)
(***************************************************************************)
EXTENDS Gateway, TLC

CONSTANTS u1, u2

Good(user, role) ==
    [hs256 |-> TRUE, signed |-> TRUE, expiry |-> "future", sub |-> user, role |-> role]

Bearer(t) == [key |-> "none", bearer |-> t]

MCCredentials ==
    { [key |-> "right", bearer |-> None],
      [key |-> "wrong", bearer |-> Good(u1, "admin")],
      Bearer(Good(u2, "none")),
      Bearer(None), [key |-> "wrong", bearer |-> None],
      Bearer([Good(u1, "admin") EXCEPT !.hs256 = FALSE]),
      Bearer([Good(u1, "admin") EXCEPT !.signed = FALSE]),
      Bearer([Good(u1, "admin") EXCEPT !.expiry = "past"]),
      Bearer([Good(u1, "admin") EXCEPT !.expiry = "none"]),
      Bearer(Good(NoSubject, "admin")) }

Symmetry == Permutations(Handlers) \cup Permutations(Tools)
=============================================================================
