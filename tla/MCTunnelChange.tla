--------------------------- MODULE MCTunnelChange ---------------------------
(* The commands that the runs of TunnelChange use, on tunnels 1 and 2. *)
EXTENDS TunnelChange, TLC

CONSTANTS x, y, d

Change(t, pol, dom) == [tunnel |-> t, policy |-> pol, domain |-> dom]

Rotate == [name |-> "rotate", items |-> <<Change(1, None, None)>>]
Policy(pol) == [name |-> "policy", items |-> <<Change(1, pol, None)>>]
Domain(dom) == [name |-> "domain", items |-> <<Change(1, None, dom)>>]
Apply(items) == [name |-> "apply", items |-> items]

MCCommands ==
  {Rotate, Policy(y), Domain(d), Domain(NoDomain),
   Apply(<<Change(1, x, d), Change(2, x, d)>>),
   Apply(<<Change(2, x, NoDomain), Change(1, y, NoDomain)>>)}

Symmetry == Permutations(Secrets) \cup Permutations(Procs)

MCReapply == {Apply(<<Change(1, x, NoDomain)>>), Apply(<<Change(1, y, NoDomain)>>)}
=============================================================================
