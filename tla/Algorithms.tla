----------------------------- MODULE Algorithms ------------------------------
(***************************************************************************)
(* The parts that compute and keep nothing, side by side: the retrieval    *)
(* over pairs of rankings, the two chunkers over a text that grows by a    *)
(* line, the normalisers over pairs of raw records, and the search for code*)
(* over a trace that grows by a line.  They share no state: one of them is *)
(* given something while the others have nothing.                          *)
(***************************************************************************)
EXTENDS Retrieval, StructuralParser, Chunker, Normalizers, BriefContext

CONSTANTS
  Remotes, Disks,     \* the code hosts and the disks that a trace may meet
  MaxLines, MaxTrace  \* bounds: lines of a text, of a stack trace

ASSUME AlgorithmsAssumption ==
  /\ Remotes \subseteq Remote /\ Disks \subseteq SUBSET File
  /\ MaxLines \in Nat /\ MaxTrace \in Nat

VARIABLES text, raws, trace

inputs == <<text, raws, trace>>

algorithmsVars == <<retrievalVars, inputs>>

AlgorithmsInit == RetrievalInit /\ text = <<>> /\ raws = <<>> /\ trace = <<>>

Unused == ~restricted /\ Len(subs) = 1 /\ subs[1].pc = "search"

AddLine ==
  /\ Unused /\ raws = <<>> /\ trace = <<>>
  /\ Len(text) < MaxLines
  /\ \E kind \in LineKind : text' = Append(text, kind)
  /\ UNCHANGED <<retrievalVars, raws, trace>>

(* The second record is whole and states an error: two records matter to    *)
(* each other only by what they are.                                        *)
AddRaw ==
  /\ Unused /\ text = <<>> /\ trace = <<>>
  /\ Len(raws) < 2
  /\ \E raw \in RawRecord :
       /\ raws = <<>> => raw.thing = 1
       /\ raws # <<>> => {"dates", "parts"} \subseteq raw.has /\ raw.level = "ERROR"
       /\ raws' = Append(raws, raw)
  /\ UNCHANGED <<retrievalVars, text, trace>>

AddFrame ==
  /\ Unused /\ text = <<>> /\ raws = <<>>
  /\ Len(trace) < MaxTrace
  /\ \E line \in {Frame(file, n) : file \in File, n \in 1 .. 2} \cup {Noise} :
       trace' = Append(trace, line)
  /\ UNCHANGED <<retrievalVars, text, raws>>

Retrieve == inputs = <<<<>>, <<>>, <<>>>> /\ RetrievalNext /\ UNCHANGED inputs

AlgorithmsNext == AddLine \/ AddRaw \/ AddFrame \/ Retrieve

AlgorithmsSpec == AlgorithmsInit /\ [][AlgorithmsNext]_algorithmsVars

-----------------------------------------------------------------------------
(* Properties                                                               *)

Parsers == {"github", "jira", "slack"}

(* Neither chunker loses any of the text: what structural_parse makes of it *)
(* keeps all of it, in order and under the headings that govern it, and what*)
(* chunk_document makes of it keeps all of it, for each of its three parsers*)
TextKept ==
  /\ ParsesWhole(text) /\ CrumbsRight(text)
  /\ \A source \in Parsers : ChunksWhole(source, text)

(* The chunks of chunk_document have bounds, and there is an end of them.   *)
ChunkedBounded == \A source \in Parsers : ChunksBounded(source, text)

(* Two raw records are one document or two as their ids say, and a record   *)
(* is dropped as its severity says.                                         *)
Normalised ==
  /\ \A i \in DOMAIN raws : SeverityKept(raws[i])
  /\ Len(raws) = 2 => ToldApart(raws[1], raws[2])

(* The code of a stack trace is found, whichever of the sources work.       *)
CodeInBrief ==
  \A github, bitbucket \in Remotes, disk \in Disks :
    CodeFound(trace, github, bitbucket, disk)
=============================================================================
