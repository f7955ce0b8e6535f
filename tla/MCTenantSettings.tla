--------------------------- MODULE MCTenantSettings ---------------------------
(* Instances of TenantSettings for TLC. *)
EXTENDS TenantSettings, TLC

Started(ops) == {a \in Admins : admin[a].pc # "idle" /\ admin[a].op \in ops}

\* A behaviour looks at caching, with two administrators and readers, or at
\* branding, with three: nothing of the branding is read from a cache.  Processes
\* do not see each other's caches: the readers of a behaviour are in one of them.
\* The last step of the clock is for tokens, which no emission touches.
Apart ==
  \/ /\ Started({"brand"}) = {} /\ Started(Ops) # Admins
     /\ now = MaxTime => \A e \in Emitters : emit[e] = IdleEmit
     /\ \E p \in Processes :
          config[p] = Empty /\ signature[p] = NoSignature /\ token[p] = NoToken
  \/ Started(Ops \ {"brand"}) = {} /\ now = 1 /\ \A r \in Readers : reader[r] = IdleReader

Symmetry == Permutations(Admins)
===============================================================================
