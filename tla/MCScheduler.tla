---------------------------- MODULE MCScheduler ----------------------------
(***************************************************************************)
(* Small streams for Scheduler.tla.                                        *)
(***************************************************************************)
EXTENDS SchedulerInvariants

\* source -> filter -> sink
ChainFilters == {"source", "filter", "sink"}
ChainOutputs == {"o1", "o2"}
ChainReaders == {"r1", "r2"}
ChainWriter  == [o \in ChainOutputs |-> IF o = "o1" THEN "source" ELSE "filter"]
ChainOutput  == [r \in ChainReaders |-> IF r = "r1" THEN "o1" ELSE "o2"]
ChainReader  == [r \in ChainReaders |-> IF r = "r1" THEN "filter" ELSE "sink"]
ChainSources == <<"source">>
ChainVisits  == [f \in ChainFilters |->
                   CASE f = "source" -> <<"filter">>
                     [] f = "filter" -> <<"sink", "source">>
                     [] OTHER        -> <<"filter">>]

\* source a feeds both sinks with one output, source b only the second
CrossFilters == {"a", "b", "x", "y"}
CrossOutputs == {"o1", "o2"}
CrossReaders == {"r1", "r2", "r3"}
CrossWriter  == [o \in CrossOutputs |-> IF o = "o1" THEN "a" ELSE "b"]
CrossOutput  == [r \in CrossReaders |-> IF r = "r3" THEN "o2" ELSE "o1"]
CrossReader  == [r \in CrossReaders |-> IF r = "r1" THEN "x" ELSE "y"]
CrossSources == <<"a", "b">>
CrossVisits  == [f \in CrossFilters |->
                   CASE f = "a" -> <<"y", "x">>
                     [] f = "b" -> <<"y">>
                     [] f = "x" -> <<"a">>
                     [] OTHER   -> <<"b", "a">>]

\* source -> sink
PairFilters == {"source", "sink"}
PairOutputs == {"o1"}
PairReaders == {"r1"}
PairWriter  == [o \in PairOutputs |-> "source"]
PairOutput  == [r \in PairReaders |-> "o1"]
PairReader  == [r \in PairReaders |-> "sink"]
PairSources == <<"source">>
PairVisits  == [f \in PairFilters |-> IF f = "source" THEN <<"sink">> ELSE <<"source">>]

\* promises: everything one byte at a time, or two bytes per read
OneByOne    == [o \in Outputs |-> 1]
TwoThenOne  == [o \in Outputs |-> IF o = "o1" THEN 2 ELSE 1]
ReadOne     == [r \in Readers |-> 1]
ReadTwo     == [r \in Readers |-> 2]
LevelTwo    == [o \in Outputs |-> 2]
OneThenTwo  == [o \in Outputs |-> IF o = "o2" THEN 2 ELSE 1]
ReadSplit   == [r \in Readers |-> IF r = "r3" THEN 2 ELSE 1]
NoGenerator == {}
=============================================================================
