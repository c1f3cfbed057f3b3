------------------------------ MODULE MCRoute ------------------------------
EXTENDS Route

Arrivals == [s \in Socks |-> IF s = "src" THEN 2 ELSE 1]

\* Both sockets SRT, and SRT with each of the other kinds.
SomeKinds == {<<"srt", "srt">>, <<"udp", "srt">>, <<"srt", "tcp">>}

\* Statistics: none; CSV with either order of the ids; JSON.
SomeStats == {<<FALSE, FALSE, 1>>, <<TRUE, FALSE, 1>>, <<TRUE, FALSE, 2>>, <<TRUE, TRUE, 1>>}

AllRoutes ==
  {[kind |-> [s \in Socks |-> IF s = "src" THEN k[1] ELSE k[2]],
    order |-> [s \in Socks |-> IF s = "src" THEN t[3] ELSE 3 - t[3]],
    bidir |-> b, stats |-> t[1], json |-> t[2]] :
     k \in SomeKinds, b \in BOOLEAN, t \in SomeStats}

\* Every combination one way; SRT and SRT both ways.
SomeConfigs ==
  {c \in AllRoutes : c.bidir => c.kind["dst"] = "srt" /\ (c.json => c.kind["src"] = "srt")}

\* SRT to SRT, one way, without statistics.
OneWay ==
  {c \in AllRoutes : ~c.bidir /\ ~c.stats /\ \A s \in Socks : c.kind[s] = "srt"}
=============================================================================
