---------------------------- MODULE MCKeyBindings ----------------------------
(* Instance of KeyBindings for TLC: two stations of different networks.    *)
EXTENDS KeyBindings

CONSTANTS n1, n2, c, m, k, p, q

MCStations == {<<n1, c>>, <<n2, c>>}

\* A bare file, a module with and without a profile, two lines of one module next to
\* a line of another.
MCInitialLines ==
    { {Line(Comment, NoProfile)},
      {Line(m, NoProfile), Line(Comment, NoProfile)},
      {Line(m, p), Line(m, q), Line(k, p)} }
==============================================================================
