---------------------------- MODULE MCSseParser ----------------------------
(* Small instances of SseParser: the streams a server sends.               *)
EXTENDS SseParser

\* Streams of so many lines, each with the same terminator; as a stream may
\* end anywhere, shorter ones are among their prefixes.
Streams(lines, n, terminator) ==
  {FlattenSeq([i \in 1..n |-> s[i] \o terminator]) : s \in [1..n -> lines]}

\* Every mix of line terminators around and between data.
TerminatorStreams == [1..8 -> {"data", "CR", "LF"}]

\* Events of every type, identified or not, with several data lines.
FieldLines == {<<>>, <<"data">>, <<"data", ":", "x">>, <<"event", ":", "x">>,
               <<"id", ":", "7">>, <<"id">>}
FieldStreams == Streams(FieldLines, 5, <<"LF">>)

\* Fields that are ignored, malformed or out of range.
EdgeLines == {<<>>, <<"data", ":", " ", "x">>, <<"BOM", "data">>, <<":", "x">>,
              <<"retry", ":", "7">>, <<"retry", ":", "huge">>,
              <<"retry", ":", "x">>, <<"id", ":", "NUL">>}
EdgeStreams ==
  LET texts == Streams(EdgeLines, 4, <<"CR", "LF">>)
  IN  texts \cup {<<"BOM">> \o t : t \in texts}

MCInputs == TerminatorStreams \cup FieldStreams \cup EdgeStreams
=============================================================================
