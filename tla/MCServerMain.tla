---------------------------- MODULE MCServerMain ----------------------------
(* Small instances of ServerMain for TLC.                                  *)
EXTENDS ServerMain
CONSTANTS u1, u2, t1, c1, c2, k1, k2, w1, w2, p1, p2, s1

Config(u, t, p, s, f, m) ==
    [udp |-> u, tcp |-> t, pid |-> p, ctl |-> s, fails |-> f, max |-> m,
     window |-> 1]

(* Reloads between configurations with other listeners, PID file and       *)
(* control socket, and to ones that cannot be applied.                     *)
ReloadConfigs ==
    {Config({u1}, {t1}, p1, s1, "none", 1),
     Config({u1, u2}, {}, p2, None, "none", 1),
     Config({u1}, {t1}, p1, s1, "handler", 1),
     Config({u2}, {}, p1, s1, "listen", 1),
     Config({u1}, {}, p2, s1, "control", 1)}

(* Control commands, faults and requests while it stops or reloads.        *)
StoppingConfigs == {Config({u1}, {}, None, s1, "none", 1)}

(* Another limit, and a longer window.                                     *)
ExceptionConfigs ==
    {Config({u1}, {}, None, None, "none", 1),
     [Config({u1}, {}, None, None, "none", 2) EXCEPT !.window = 2]}

OneConfig == {Config({u1}, {}, p1, None, "none", 1)}
=============================================================================
