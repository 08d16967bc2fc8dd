\* Two sockets, two connections, two tasks, with TLS and without.  A server that
\* was closed stops.
SPECIFICATION FairSpec
CONSTANTS
    Socks = {s1, s2}
    Conns = {c1, c2}
    Tasks = {t1, t2}
    Nothing = Nothing
    MaxRetries = 2
INVARIANTS ToldWhenGone
PROPERTIES ListensAgain WaitEnds
CHECK_DEADLOCK FALSE
