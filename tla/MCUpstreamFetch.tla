--------------------------- MODULE MCUpstreamFetch ---------------------------
(* A live loop (priority 1), a route and a history walker (4) that share    *)
(* keys, over one or two places in the queue.                                 *)
EXTENDS UpstreamFetch
CONSTANTS k1, k2, k3, f1, f2, f3, f4, none, loop, route, walker, other
Ask(c, k, p) == [caller |-> c, key |-> k, priority |-> p]

\* Three callers over two keys: every pair of them can meet on a key.
MCTwoKeys == {k1, k2}
MCThreeFlights == {f1, f2, f3}
MCThreeCallers == {loop, route, walker}
MCSharedAsks == {Ask(loop, k1, 1), Ask(route, k1, 4), Ask(route, k2, 4),
                 Ask(walker, k1, 4), Ask(walker, k2, 4)}

\* The inversion: loop and walker meet on k1, while route and other can keep
\* the only place in the queue busy with requests of the most urgent class.
MCThreeKeys == {k1, k2, k3}
MCFourFlights == {f1, f2, f3, f4}
MCFourCallers == {loop, route, walker, other}
MCBusyAsks == {Ask(loop, k1, 1), Ask(walker, k1, 4), Ask(route, k2, 1), Ask(other, k3, 1)}

\* One caller that walks three keys through a cache of two entries.
MCOneCaller == {walker}
MCWalkAsks == {Ask(walker, k, 4) : k \in MCThreeKeys}

MCLoops == {loop}
MCSymmetry == Permutations({f1, f2, f3})
=============================================================================
