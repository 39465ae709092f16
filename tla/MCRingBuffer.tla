---------------------------- MODULE MCRingBuffer ----------------------------
(***************************************************************************)
(* Small streams for RingBuffer.tla.                                       *)
(***************************************************************************)
EXTENDS RingBuffer

\* source -> pass -> sink, where pass hands the source's buffer on, and a
\* second reader of the source's output
TapFilters == {"source", "pass", "sink", "tap"}
TapOutputs == {"o1", "o2"}
TapReaders == {"r1", "r2", "r3"}
TapWriter  == [o \in TapOutputs |-> IF o = "o1" THEN "source" ELSE "pass"]
TapOutput  == [r \in TapReaders |-> IF r = "r2" THEN "o2" ELSE "o1"]
TapReader  == [r \in TapReaders |->
                 CASE r = "r1" -> "pass" [] r = "r2" -> "sink" [] OTHER -> "tap"]
TapVisits  == [f \in TapFilters |->
                 CASE f = "source" -> <<"tap", "pass">>
                   [] f = "pass"   -> <<"sink", "source">>
                   [] f = "sink"   -> <<"pass">>
                   [] OTHER        -> <<"source">>]
TapPrev    == [o \in TapOutputs |-> IF o = "o2" THEN "o1" ELSE "none"]
TapVia     == [o \in {"o2"} |-> "r1"]

\* one source whose one output two sinks read
FanFilters == {"source", "left", "right"}
FanOutputs == {"o1"}
FanReaders == {"r1", "r2"}
FanWriter  == [o \in FanOutputs |-> "source"]
FanOutput  == [r \in FanReaders |-> "o1"]
FanReader  == [r \in FanReaders |-> IF r = "r1" THEN "left" ELSE "right"]
FanVisits  == [f \in FanFilters |->
                 IF f = "source" THEN <<"right", "left">> ELSE <<"source">>]
NoPrev     == [o \in Outputs |-> "none"]
NoVia      == [o \in {} |-> "r1"]

FromSource  == <<"source">>
NoGenerator == {}
WriteThree  == [o \in Outputs |-> 3]
WriteFour   == [o \in Outputs |-> 4]
ReadOne     == [r \in Readers |-> 1]
ReadTwo     == [r \in Readers |-> 2]
ReadFour    == [r \in Readers |-> 4]
LevelThree  == [o \in Outputs |-> 3]
LevelFour   == [o \in Outputs |-> 4]
=============================================================================
