-------------------------------- MODULE Wire --------------------------------
(***************************************************************************)
(* The body of an OP_MSG (wire.cc). A message is a sequence of cells: a    *)
(* cell is a number, a section's kind, a character or a byte of a BSON     *)
(* document, and every length counts cells. A document begins with its     *)
(* length and ends with 0, which is all bson_new_from_data looks at; a     *)
(* string ends with 0. Bit 0 of the flags says a checksum cell follows.    *)
(***************************************************************************)
EXTENDS Integers, Sequences, FiniteSets

CONSTANTS
  Cells,      \* values of a cell
  MaxLength,  \* longest message
  Sendable,   \* what drivers send: sequences of sections
  Flags       \* flag values: bit 0 checksum, bit 1 moreToCome, others unknown

(* One part of a request: its body, or a named sequence of documents.      *)
SectionForms == [kind : {0, 1}, id : Seq(Int), docs : Seq(Seq(Int))]

Malformed == [ok |-> FALSE, sections |-> <<>>]
MinDocument == 2
MinSequence == 2

(* What a driver takes for a document, and what it makes a request of: one *)
(* body, and sequences whose names are distinct and hold no 0.             *)
IsDocument(d) == Len(d) >= MinDocument /\ d[1] = Len(d) /\ d[Len(d)] = 0
IsRequest(sections) ==
  /\ sections \in Seq(SectionForms)
  /\ \A i \in DOMAIN sections : \A k \in DOMAIN sections[i].docs : IsDocument(sections[i].docs[k])
  /\ \A i \in DOMAIN sections : \A k \in DOMAIN sections[i].id : sections[i].id[k] # 0
  /\ \E b \in DOMAIN sections :
       /\ sections[b].kind = 0 /\ sections[b].id = <<>> /\ Len(sections[b].docs) = 1
       /\ \A i \in DOMAIN sections : i # b => sections[i].kind = 1
  /\ \A i, j \in DOMAIN sections :
       sections[i].kind = 1 /\ sections[j].kind = 1 /\ sections[i].id = sections[j].id => i = j

ASSUME WireAssumption ==
  /\ Cells \subseteq Int /\ MaxLength \in Nat /\ Flags \subseteq Nat
  /\ \A sections \in Sendable : IsRequest(sections)

VARIABLE message  \* flags, cells, and the sections sent if a driver made it

NoMessage == [flags |-> 0, cells |-> <<>>, sent |-> <<>>]

(* Cursor::document at position `at`, in cells that end before `end`: the  *)
(* position after it, or 0.                                                *)
AfterDocument(c, at, end) ==
  IF at < end /\ c[at] >= MinDocument /\ at + c[at] <= end /\ c[at + c[at] - 1] = 0
  THEN at + c[at] ELSE 0

(* Cursor::cstring.                                                        *)
AfterString(c, at, end) ==
  LET stops == {i \in at..(end - 1) : c[i] = 0}
  IN IF stops = {} THEN 0 ELSE 1 + CHOOSE i \in stops : \A j \in stops : i <= j

(* The loops of parse_request are functions of the number of rounds. Every *)
(* round that does not fail takes a cell or more, so there are never more  *)
(* rounds than cells.                                                      *)

(* One document pushed back, of those before `sectionEnd`.                 *)
ReadDocument(c, sectionEnd, end, s) ==
  LET next == AfterDocument(c, s.at, end)
  IN IF ~s.ok \/ s.at >= sectionEnd THEN s
     ELSE IF next = 0 THEN [s EXCEPT !.ok = FALSE]
     ELSE [s EXCEPT !.at = next, !.docs = Append(@, SubSeq(c, s.at, next - 1))]

(* Documents from `first` until the section ends or is overrun.            *)
Documents(c, first, sectionEnd, end) ==
  LET round[i \in 0..Len(c)] ==
        IF i = 0 THEN [ok |-> TRUE, at |-> first, docs |-> <<>>]
        ELSE ReadDocument(c, sectionEnd, end, round[i - 1])
  IN round[Len(c)]

(* Mutant of EndsThere: an overrun of the declared length is let pass.     *)
EndsAnywhere(at, sectionEnd) == at >= sectionEnd

(* "OP_MSG sequence overruns its declared length".                         *)
EndsThere(at, sectionEnd) == at = sectionEnd

Failed(s) == [s EXCEPT !.ok = FALSE]
Read(s, next, kind, id, docs) ==
  [ok |-> TRUE, at |-> next, haveBody |-> s.haveBody \/ kind = 0,
   sections |-> Append(s.sections, [kind |-> kind, id |-> id, docs |-> docs])]

(* Kind 0: the body, of which there is one.                                *)
ReadBody(c, end, s) ==
  LET next == AfterDocument(c, s.at + 1, end)
  IN IF s.haveBody \/ next = 0 THEN Failed(s)
     ELSE Read(s, next, 0, <<>>, <<SubSeq(c, s.at + 1, next - 1)>>)

(* Kind 1: a size that counts itself, a name, and documents.               *)
ReadSequence(c, end, s) ==
  LET sectionEnd == s.at + 1 + c[s.at + 1]
      first == AfterString(c, s.at + 2, end)
      body == Documents(c, first, sectionEnd, end)
  IN IF s.at + 1 >= end \/ c[s.at + 1] < MinSequence \/ first = 0 \/ ~body.ok
          \/ ~EndsThere(body.at, sectionEnd)
     THEN Failed(s)
     ELSE Read(s, body.at, 1, SubSeq(c, s.at + 2, first - 2), body.docs)

ReadSection(c, end, s) ==
  IF ~s.ok \/ s.at >= end THEN s
  ELSE IF c[s.at] = 0 THEN ReadBody(c, end, s)
  ELSE IF c[s.at] = 1 THEN ReadSequence(c, end, s)
  ELSE Failed(s)

(* The loop of parse_request over sections.                                *)
Sections(c, end) ==
  LET round[i \in 0..Len(c)] ==
        IF i = 0 THEN [ok |-> TRUE, at |-> 1, haveBody |-> FALSE, sections |-> <<>>]
        ELSE ReadSection(c, end, round[i - 1])
  IN round[Len(c)]

HasChecksum(flags) == flags % 2 = 1
Understood(flags) == flags % 65536 < 4  \* the higher bits are optional

(* parse_request, of an OP_MSG.                                            *)
Parse(m) ==
  LET end == Len(m.cells) + 1 - (IF HasChecksum(m.flags) THEN 1 ELSE 0)
      s == Sections(m.cells, end)
  IN IF ~Understood(m.flags) \/ end < 1 \/ ~s.ok \/ ~s.haveBody THEN Malformed
     ELSE [ok |-> TRUE, sections |-> s.sections]

(* Mutant of FoldInSequences: sequences replace one another.               *)
FoldLast(sections) ==
  LET lists == {i \in DOMAIN sections : sections[i].kind = 1}
  IN {i \in lists : \A j \in lists : j <= i}

(* fold_in_sequences: the sequences, in their order, become array fields   *)
(* after the body's. A handler takes the first field of the name.          *)
FoldInSequences(sections) == {i \in DOMAIN sections : sections[i].kind = 1}
FieldOf(sections, id) ==
  LET named == {i \in FoldInSequences(sections) : sections[i].id = id}
  IN IF named = {} THEN <<>> ELSE sections[CHOOSE i \in named : \A j \in named : i <= j].docs

----------------------------------------------------------------------------
(* A driver's encoding of sections.                                        *)

Joined(parts) ==
  LET joined[i \in 0..Len(parts)] == IF i = 0 THEN <<>> ELSE joined[i - 1] \o parts[i]
  IN joined[Len(parts)]
EncodeSection(s) ==
  IF s.kind = 0 THEN <<0>> \o s.docs[1]
  ELSE LET content == s.id \o <<0>> \o Joined(s.docs) IN <<1, Len(content) + 1>> \o content
Encode(sections) == Joined([i \in DOMAIN sections |-> EncodeSection(sections[i])])

(* Any bytes may come, and what drivers send.                              *)
ReceiveBytes(flags, cells) == message' = [flags |-> flags, cells |-> cells, sent |-> <<>>]
ReceiveRequest(flags, sections) ==
  message' = [flags |-> flags, sent |-> sections,
              cells |-> Encode(sections) \o IF HasChecksum(flags) THEN <<0>> ELSE <<>>]

WireInit == message = NoMessage
WireNext ==
  /\ message = NoMessage
  /\ \/ \E flags \in Flags, n \in 1..MaxLength : \E cells \in [1..n -> Cells] :
          ReceiveBytes(flags, cells)
     \/ \E flags \in {f \in Flags : Understood(f)}, sections \in Sendable :
          ReceiveRequest(flags, sections)
WireSpec == WireInit /\ [][WireNext]_message

----------------------------------------------------------------------------
(* Properties                                                              *)

Trimmed(m) == IF HasChecksum(m.flags) THEN SubSeq(m.cells, 1, Len(m.cells) - 1) ELSE m.cells

(* Of all cell sequences, truncated and overrunning ones included, only    *)
(* encodings of a body and sequences are accepted, and read as just that   *)
(* (parse_request): nothing is cut off, skipped or read past the end of a  *)
(* section or of the message.                                              *)
AcceptsOnlyEncodings ==
  message # NoMessage =>
    LET parsed == Parse(message) IN parsed.ok => Encode(parsed.sections) = Trimmed(message)

(* What a driver sends reaches the handler: a request with one body and    *)
(* sequences of distinct names, wherever the body stands, is accepted, and *)
(* each name leads to all its documents in order. (Of two sequences with   *)
(* one name the handler would see the first.)                              *)
NoDocumentLost ==
  message.sent # <<>> =>
    LET parsed == Parse(message)
    IN /\ parsed.ok
       /\ \A i \in DOMAIN message.sent : message.sent[i].kind = 1 =>
            FieldOf(parsed.sections, message.sent[i].id) = message.sent[i].docs

(* parse_request accepts what drivers send and nothing but encodings.      *)
RequestsReadWhole == AcceptsOnlyEncodings /\ NoDocumentLost
=============================================================================
