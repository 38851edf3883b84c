------------------------------ MODULE NetCases ------------------------------
(***************************************************************************)
(* Nets that grow by one layer at a time, each with what Net::Init makes   *)
(* of it (9.caffe-ssd/src/caffe/net.cpp).                                  *)
(***************************************************************************)
EXTENDS Net

CONSTANT Cases(_)  \* Cases(net): the layers that may come next

VARIABLES net,     \* the layers, as they are written
          forced,  \* force_backward of the net
          built    \* what Init makes of them

netVars == << net, forced, built >>

Start ==
  /\ net = << >> /\ forced \in BOOLEAN
  /\ built = NetInit(net, forced)

Grow ==
  /\ \E l \in Cases(net) : l \in Layer /\ net' = Append(net, l)
  /\ built' = NetInit(net', forced)
  /\ UNCHANGED forced

NetSpec == Start /\ [][Grow]_netVars

\* Init turns away exactly the nets that read what nobody made, write over a
\* blob in use, name two blobs alike or give one parameter two rates
\* (insert_splits.cpp:27-31, net.cpp:382-420, :519-537).
RefusedIffWrong == RefusalExact(net, built)

\* The backward pass over splits, shared parameters, layers in place and
\* skipped layers gives every learnable parameter what the chain rule gives it
\* on the net as it was written (net.cpp:191-266).
WholeGradient == GradientExact(net, built)
=============================================================================
