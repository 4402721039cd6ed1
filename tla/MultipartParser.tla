--------------------------- MODULE MultipartParser ---------------------------
(***************************************************************************)
(* The incremental multipart parser (http/multipart/parser.rs) fed one     *)
(* source frame at a time, beside the buffered parser (buffered.rs) that   *)
(* reads the same grammar over a whole body.  Bytes are kept: a delimiter  *)
(* is found or missed by how a frame edge cuts it.  The boundary is the    *)
(* byte "b"; "r" and "n" are CR and LF; "x" stands for the text of a       *)
(* well-formed content-disposition line, and only a line holding one has a *)
(* colon.                                                                  *)
(*                                                                         *)
(* Positions are those of the code, counted from 0.                        *)
(***************************************************************************)
EXTENDS Integers, Sequences, FiniteSets, SequencesExt

CONSTANTS
  BodySet,        \* bound: the bodies explored
  FrameSizes,     \* bound: the sizes a source frame may have
  MaxFields, MaxFieldBytes, MaxHeaderBytes, MaxChunkBytes

VARIABLES
  mpBody,     \* the whole request body
  mpFed,      \* how much of it the source frames have carried
  mpParser,   \* IncrementalParser
  mpSource,   \* what is left of the frame in hand
  mpGot,      \* the data of each field handed out so far
  mpHeads,    \* history: where each header block began and its data begins
  mpOutcome   \* "reading", "end", or why the body was refused

mpVars == <<mpBody, mpFed, mpParser, mpSource, mpGot, mpHeads, mpOutcome>>

-----------------------------------------------------------------------------
(* grammar.rs                                                               *)
-----------------------------------------------------------------------------
CRLF == <<"r", "n">>
Dashes == <<"-", "-">>
Boundary == <<"b">>
DELIMITER_PREFIX == CRLF \o Dashes
HEADER_TERMINATOR == CRLF \o CRLF
DELIMITER_SUFFIX_BYTES == 2
EPILOGUE_PROBE_BYTES == 3
DelimiterLine == Len(DELIMITER_PREFIX) + Len(Boundary) + DELIMITER_SUFFIX_BYTES
Opening == Len(Dashes) + Len(Boundary) + DELIMITER_SUFFIX_BYTES
\* A mutant of Carry: one byte too few is kept across frames.
CarryShort == Len(Boundary) + Len(DELIMITER_PREFIX) + DELIMITER_SUFFIX_BYTES - 2
Carry == Len(Boundary) + Len(DELIMITER_PREFIX) + DELIMITER_SUFFIX_BYTES - 1

Bytes(s, from, upto) == SubSeq(s, from + 1, upto)
StartsAt(s, needle, p) == p + Len(needle) <= Len(s) /\ Bytes(s, p, p + Len(needle)) = needle

First(positions) == IF positions = {} THEN -1 ELSE CHOOSE p \in positions : \A q \in positions : p <= q

find_bytes(s, needle, from) ==
  First({p \in from..(Len(s) - Len(needle)) : StartsAt(s, needle, p)})

SuffixAt(s, p) ==
  CASE StartsAt(s, CRLF, p) -> "next"
    [] StartsAt(s, Dashes, p) -> "closes"
    [] OTHER -> "none"

find_delimiter(s, from) ==
  First({p \in from..(Len(s) - DelimiterLine) :
           /\ StartsAt(s, DELIMITER_PREFIX \o Boundary, p)
           /\ SuffixAt(s, p + Len(DELIMITER_PREFIX) + Len(Boundary)) # "none"})

opens_body(s) == StartsAt(s, Dashes \o Boundary, 0)

epilogue_closes(s) ==
  CASE s = <<>> \/ s = CRLF -> "closed"
    [] s = <<"r">> -> "partial"
    [] OTHER -> "refused"

(* parse_header_block: every line has its colon, and exactly one names the *)
(* field.                                                                   *)
HeaderLines(s) ==
  LET breaks == {p \in 0..(Len(s) - 2) : StartsAt(s, CRLF, p)}
      starts == {0} \union {p + 2 : p \in breaks}
      EndOf(a) == IF \E p \in breaks : p >= a THEN First({p \in breaks : p >= a}) ELSE Len(s)
  IN {<<a, Bytes(s, a, EndOf(a))>> : a \in starts}

parse_header_block(s) ==
  /\ \A l \in HeaderLines(s) : "x" \in ToSet(l[2])
  /\ Cardinality({l \in HeaderLines(s) : l[2] = <<"x">>}) = 1

-----------------------------------------------------------------------------
(* buffered.rs: the part at each position, and the parts from it on.        *)
-----------------------------------------------------------------------------
Refused == [ok |-> FALSE, parts |-> <<>>]

parse_part(raw) ==
  LET end == find_bytes(raw, HEADER_TERMINATOR, 0)
  IN IF end < 0 \/ ~parse_header_block(Bytes(raw, 0, end)) THEN Refused
     ELSE [ok |-> TRUE, parts |-> <<Bytes(raw, end + Len(HEADER_TERMINATOR), Len(raw))>>]

parse(body) ==
  LET After(p) == p + DELIMITER_SUFFIX_BYTES
      Ends(p) == IF epilogue_closes(Bytes(body, After(p), Len(body))) = "closed"
                 THEN [ok |-> TRUE, parts |-> <<>>] ELSE Refused
      from[p \in 0..(Len(body) + 1)] ==
        LET delim == find_delimiter(body, p)
            suffix == delim + Len(DELIMITER_PREFIX) + Len(Boundary)
            part == parse_part(Bytes(body, p, delim))
            rest == IF SuffixAt(body, suffix) = "closes" THEN Ends(suffix) ELSE from[After(suffix)]
        IN IF delim < 0 THEN Refused
           ELSE IF ~part.ok \/ ~rest.ok THEN Refused
           ELSE [ok |-> TRUE, parts |-> part.parts \o rest.parts]
      opening == Len(Dashes) + Len(Boundary)
  IN CASE ~opens_body(body) -> Refused
       [] SuffixAt(body, opening) = "closes" -> Ends(opening)
       [] SuffixAt(body, opening) = "next" -> from[After(opening)]
       [] OTHER -> Refused

-----------------------------------------------------------------------------
(* parser.rs.  A step answers the parser after it, what is left of the      *)
(* source, and an event, "continue", "more" or the refusal.                 *)
-----------------------------------------------------------------------------
(* required_parser_buffer_bytes: the smallest budget the limits admit. *)
BufferLimit == LET header == 2 * MaxHeaderBytes
                   data == MaxChunkBytes + Carry
               IN IF header > data THEN header ELSE data

NewParser == [state |-> "opening", buffer |-> <<>>, scanned |-> 0, fields |-> 0,
              fieldBytes |-> 0, reserved |-> 0]

At0(n) == IF n < 0 THEN 0 ELSE n
Least(m, n) == IF m < n THEN m ELSE n

Answer(p, input, out) == [p |-> p, source |-> input, out |-> out]
Refuse(p, input, why) == Answer(p, input, [kind |-> "refused", why |-> why])
Event(p, input, kind, data) == Answer(p, input, [kind |-> kind, data |-> data])
Continue_(p, input) == Answer(p, input, [kind |-> "continue"])
NeedMore(p, input) == Answer(p, input, [kind |-> "more"])

(* fill: at most what is wanted is taken, once the budget has reserved it. *)
Wanted(p, input, want) == Least(At0(want), Len(input))
Fits(p, count) == p.reserved + count <= BufferLimit
Filled(p, input, n) == [p EXCEPT !.buffer = @ \o Bytes(input, 0, n), !.reserved = @ + n]
Left(input, n) == Bytes(input, n, Len(input))

consume(p, n) == [p EXCEPT !.buffer = Left(@, n), !.reserved = @ - n, !.scanned = At0(@ - n)]

StateAfter(suffix) == IF suffix = "closes" THEN "epilogue" ELSE "headers"

step_opening(p, input) ==
  LET n == Wanted(p, input, Opening - Len(p.buffer))
      q == Filled(p, input, n)
      suffix == SuffixAt(q.buffer, Len(Dashes) + Len(Boundary))
  IN CASE ~Fits(p, n) -> Refuse(p, input, "buffer")
       [] Len(q.buffer) < Opening -> NeedMore(q, Left(input, n))
       [] ~opens_body(q.buffer) \/ suffix = "none" -> Refuse(q, Left(input, n), "framing")
       [] OTHER -> Continue_([consume(q, Opening) EXCEPT !.state = StateAfter(suffix)],
                             Left(input, n))

(* read_field_metadata reserves the block a second time while it copies the *)
(* metadata out; the copy kept here is one byte of name.                    *)
step_headers(p, input) ==
  LET n == Wanted(p, input, MaxHeaderBytes - Len(p.buffer))
      q == Filled(p, input, n)
      end == find_bytes(q.buffer, HEADER_TERMINATOR, At0(q.scanned - Len(HEADER_TERMINATOR) + 1))
      seen == [q EXCEPT !.fields = @ + 1]
      headed == [consume(seen, end + Len(HEADER_TERMINATOR)) EXCEPT
                 !.state = "data", !.scanned = 0, !.fieldBytes = 0]
  IN CASE ~Fits(p, n) -> Refuse(p, input, "buffer")
       [] end < 0 /\ Len(q.buffer) >= MaxHeaderBytes -> Refuse(q, Left(input, n), "headerLimit")
       [] end < 0 -> NeedMore([q EXCEPT !.scanned = Len(q.buffer)], Left(input, n))
       [] q.fields >= MaxFields -> Refuse(seen, Left(input, n), "fieldLimit")
       [] ~Fits(q, end) -> Refuse(seen, Left(input, n), "buffer")
       [] ~parse_header_block(Bytes(q.buffer, 0, end)) -> Refuse(seen, Left(input, n), "header")
       [] OTHER -> Event(headed, Left(input, n), "field", <<>>)

yield_chunk(p, input, available) ==
  LET n == Least(available, MaxChunkBytes)
      q == [p EXCEPT !.fieldBytes = @ + n, !.buffer = Left(@, n), !.scanned = At0(@ - n),
                     !.reserved = @ - n]
  IN IF p.fieldBytes + n > MaxFieldBytes THEN Refuse(p, input, "fieldBytes")
     ELSE Event(q, input, "chunk", Bytes(p.buffer, 0, n))

close_field(p, input) ==
  LET suffix == SuffixAt(p.buffer, Len(DELIMITER_PREFIX) + Len(Boundary))
  IN Event([consume(p, DelimiterLine) EXCEPT !.scanned = 0, !.state = StateAfter(suffix)],
           input, "fieldEnd", <<>>)

(* A delimiter found after the fill gives back what follows its line. *)
step_data(p, input) ==
  LET kept_at == find_delimiter(p.buffer, At0(p.scanned - Carry))
      n == Wanted(p, input, MaxChunkBytes + Carry - Len(p.buffer))
      q == Filled(p, input, n)
      found == find_delimiter(q.buffer, At0(Len(p.buffer) - Carry))
      kept == IF found < 0 THEN n ELSE found + DelimiterLine - Len(p.buffer)
      cut == Filled(p, input, kept)
      Yields(r, s, at) == IF at = 0 THEN close_field(r, s) ELSE yield_chunk(r, s, at)
      spare == Len(cut.buffer) - Carry
      scanned == [cut EXCEPT !.scanned = Len(cut.buffer)]
  IN CASE kept_at >= 0 -> Yields(p, input, kept_at)
       [] ~Fits(p, n) -> Refuse(p, input, "buffer")
       [] found >= 0 -> Yields(cut, Left(input, kept), found)
       [] spare <= 0 -> NeedMore(scanned, Left(input, kept))
       [] OTHER -> yield_chunk(scanned, Left(input, kept), spare)

step_epilogue(p, input) ==
  LET n == Wanted(p, input, EPILOGUE_PROBE_BYTES - Len(p.buffer))
      q == Filled(p, input, n)
  IN CASE ~Fits(p, n) -> Refuse(p, input, "buffer")
       [] epilogue_closes(q.buffer) = "refused" -> Refuse(q, Left(input, n), "framing")
       [] OTHER -> NeedMore(q, Left(input, n))

step_parser(p, input) ==
  CASE p.state = "opening" -> step_opening(p, input)
    [] p.state = "headers" -> step_headers(p, input)
    [] p.state = "data" -> step_data(p, input)
    [] OTHER -> step_epilogue(p, input)

(* finish: the source ended. *)
finish(p) == IF p.state = "epilogue" /\ epilogue_closes(p.buffer) = "closed" THEN "end" ELSE "truncated"

-----------------------------------------------------------------------------
MpInit ==
  /\ mpBody \in BodySet /\ mpFed = 0 /\ mpParser = NewParser
  /\ mpSource = <<>> /\ mpGot = <<>> /\ mpHeads = {} /\ mpOutcome = "reading"

Stepped == step_parser(mpParser, mpSource)
Position(p, input) == mpFed - Len(input) - Len(p.buffer)

(* pump: the event's reservation is released as it leaves, and the data of  *)
(* the field in hand grows.                                                 *)
pump ==
  /\ mpOutcome = "reading" /\ Stepped.out.kind # "more"
  /\ mpParser' = Stepped.p /\ mpSource' = Stepped.source
  /\ mpGot' = CASE Stepped.out.kind = "field" -> Append(mpGot, <<>>)
                [] Stepped.out.kind = "chunk" ->
                     [mpGot EXCEPT ![Len(mpGot)] = @ \o Stepped.out.data]
                [] OTHER -> mpGot
  /\ mpHeads' = IF Stepped.out.kind = "field"
                THEN mpHeads \union {<<Position(mpParser, mpSource),
                                      Position(Stepped.p, Stepped.source)>>}
                ELSE mpHeads
  /\ mpOutcome' = IF Stepped.out.kind = "refused" THEN Stepped.out.why ELSE "reading"
  /\ UNCHANGED <<mpBody, mpFed>>

(* pull_frame replaces the source with the next frame. *)
pull_frame ==
  /\ mpOutcome = "reading" /\ Stepped.out.kind = "more" /\ mpFed < Len(mpBody)
  /\ mpParser' = Stepped.p
  /\ \E n \in {Least(f, Len(mpBody) - mpFed) : f \in FrameSizes} :
       /\ mpSource' = Bytes(mpBody, mpFed, mpFed + n)
       /\ mpFed' = mpFed + n
  /\ UNCHANGED <<mpBody, mpGot, mpHeads, mpOutcome>>

input_ended ==
  /\ mpOutcome = "reading" /\ Stepped.out.kind = "more" /\ mpFed = Len(mpBody)
  /\ mpParser' = Stepped.p /\ mpOutcome' = finish(Stepped.p)
  /\ UNCHANGED <<mpBody, mpFed, mpSource, mpGot, mpHeads>>

MpNext == pump \/ pull_frame \/ input_ended

-----------------------------------------------------------------------------
(* Properties.                                                              *)
-----------------------------------------------------------------------------
Limits == {"headerLimit", "fieldLimit", "fieldBytes"}

(* A delimiter line that begins before a field's data does, in its header   *)
(* block or in the CRLF that ends it: the two parsers part company there.   *)
DelimiterBeforeData ==
  \E h \in mpHeads : find_delimiter(mpBody, h[1]) \in h[1]..(h[2] - 1)

(* However the frames cut the body, the incremental parser hands out the    *)
(* parts the buffered parser reads from it, and refuses what that refuses.  *)
FramesDoNotMatter ==
  /\ mpOutcome = "end" /\ ~DelimiterBeforeData
       => parse(mpBody).ok /\ mpGot = parse(mpBody).parts
  /\ mpOutcome \notin {"reading", "end"} \union Limits => ~parse(mpBody).ok

(* The budget the limits admit is never exhausted, it accounts for exactly  *)
(* the retained bytes, and a frame is only pulled over a spent source.      *)
BufferExact ==
  /\ mpOutcome # "buffer"
  /\ mpParser.reserved = Len(mpParser.buffer) /\ mpParser.reserved <= BufferLimit
  /\ Stepped.out.kind = "more" => Stepped.source = <<>>

MultipartParsed == FramesDoNotMatter /\ BufferExact
=============================================================================
