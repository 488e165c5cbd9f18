----------------------------- MODULE MCTty2Tcp -----------------------------
(***************************************************************************)
(* Instances of Tty2Tcp for TLC: a cfg cannot write a function.            *)
(***************************************************************************)
EXTENDS Tty2Tcp, TLC

\* The default ends of main: s:9000 and c:/dev/ttyUSB0.
DefaultSources == (0 :> "server") @@ (1 :> "serial")

\* Ring sizes: one that wraps in every way, one that is small; two small
\* ones; and one that is no power of two.
FourTwo == (0 :> 4) @@ (1 :> 2)
TwoTwo == (0 :> 2) @@ (1 :> 2)
ThreeTwo == (0 :> 3) @@ (1 :> 2)

\* A pty and a TCP client bound to a device (-i).
LeakySources == (0 :> "pts") @@ (1 :> "tcp")
=============================================================================
