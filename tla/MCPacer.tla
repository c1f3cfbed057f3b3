------------------------------ MODULE MCPacer ------------------------------
EXTENDS Pacer

Base == [mode |-> "none", rate |-> 0, size |-> 100, num_messages |-> 0 - 1,
         duration |-> 0, csv |-> <<>>, newline |-> FALSE]

\* 320 and 240 Mbps in messages of 100 bytes: 2 and 3 us; the second one is
\* 3 1/3 us cut off.  At 64 bps no message fits into ten seconds.
Rates == {320000000, 240000000}

SomeConfigs ==
  {[Base EXCEPT !.mode = m, !.rate = r, !.duration = d] :
      m \in {"sleep", "spin"}, r \in Rates, d \in {0, 8}}
  \cup {[Base EXCEPT !.mode = "sleep", !.rate = 64, !.num_messages = 3]}
  \cup {[Base EXCEPT !.mode = "spin", !.rate = 320000000, !.num_messages = 2]}
  \cup {[Base EXCEPT !.num_messages = n] : n \in {0, 2}}
  \cup {[Base EXCEPT !.duration = 3]}
  \cup {[Base EXCEPT !.mode = "csv", !.csv = l, !.newline = b] :
          l \in {<<>>, <<0, 3>>, <<4>>}, b \in BOOLEAN}
=============================================================================
