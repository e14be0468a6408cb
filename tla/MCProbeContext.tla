--------------------------- MODULE MCProbeContext ---------------------------
(* Small instances of ProbeContext for TLC.                                *)
EXTENDS ProbeContext

Obs(sub, act, pid, ts, flags, signs) ==
  [subsystem |-> sub, Action |-> act, Pid |-> pid, Ts |-> ts, Flags |-> flags, signs |-> signs]

\* Process 1 runs a LOLBAS binary and beacons; process 2 shares its tracker
\* entry; a doctrine file is written just past the window; a tool call comes
\* without a process and with the correlated and OK flags already up.
MCEvents ==
  { Obs("proc", "exec", 1, 1, {"ok"}, {"lolbas"}),
    Obs("net", "connect", 1, 2, {"beaconing"}, {}),
    Obs("net", "connect", 2, 1, {"beaconing", "correlated"}, {}),
    Obs("file", "write", 1, 3, {}, {"doctrine"}),
    Obs("mcp", "toolCall", 0, 1, {"ok", "correlated", "suspiciousMCP"}, {"piped"}) }

\* One channel, so that the ring wraps.
MCGpu == Obs("gpu", "none", 1, 1, {}, {"class3"})
MCAll == MCEvents \cup {MCGpu}

\* Up to MaxBroad injections go to every channel; behaviours with more of
\* them, up to MaxInject, fill the ring of one.
MaxBroad == 3
Envelope ==
  injected <= MaxBroad \/ /\ prod.pc = "idle" \/ prod.ev = MCGpu
                          /\ \A c \in Channels, s \in 0 .. Size - 1 : chan[c].Slots[s] \in {NoEvent, MCGpu}
MCSpec == Init /\ [][Next /\ Envelope']_vars
=============================================================================
