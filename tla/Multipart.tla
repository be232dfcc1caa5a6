------------------------------ MODULE Multipart ------------------------------
(***************************************************************************)
(* src/shared_libs/http/libkylhttp.c: what a handler reads out of a body   *)
(* of multipart/form-data, and the scanners of a JSON body.  A body is a   *)
(* sequence of pieces of text: a line end, "--", a quoted opening such as  *)
(* name=", and names and contents, each a piece of two or more characters  *)
(* that occurs in no other.  The boundary is given; "" stands for a        *)
(* Content-Type that is not multipart/form-data or has no boundary.        *)
(***************************************************************************)
EXTENDS Naturals, Sequences, FiniteSets

CR == "\r"
LF == "\n"
Dashes == "--"
Disposition == "Content-Disposition:"
Name == "name=\""           \* also the end of filename="
File == "file"
Quote == "\""
Blank == {CR, LF, " ", "\t"}
NotFound == 0
Missing == <<"|">>          \* what the file readers answer when there is none

OccursAt(needle, s, i) == i + Len(needle) - 1 <= Len(s) /\ SubSeq(s, i, i + Len(needle) - 1) = needle
Least(S) == IF S = {} THEN NotFound ELSE CHOOSE i \in S : \A j \in S : i <= j

\* strnstr, and the loops around memcmp: where needle first occurs at or after i
Find(needle, s, i) == Least({j \in i .. Len(s) : OccursAt(needle, s, j)})

Marker(boundary) == <<Dashes, boundary>>

\* Past the line end that follows a boundary.
SkipLineEnd(s, i) ==
    CASE OccursAt(<<CR, LF>>, s, i) -> i + 2
      [] OccursAt(<<LF>>, s, i) -> i + 1
      [] OTHER -> i

\* The blank line that ends the headers of a part: where they end and where its
\* content starts.
HeadersEnd(s, i) ==
    Least({j \in i .. Len(s) : \/ OccursAt(<<CR, LF, CR, LF>>, s, j)
                              \/ (OccursAt(<<LF, LF>>, s, j) /\ j + 2 <= Len(s))})
ContentStart(s, i) == HeadersEnd(s, i) + (IF s[HeadersEnd(s, i)] = CR THEN 4 ELSE 2)

\* Mutant: the CR before the marker stays.
ContentEndLf(s, i, boundary) ==
    LET lf == Find(<<LF>> \o Marker(boundary), s, i)
    IN  IF lf # NotFound THEN <<lf, 3>> ELSE <<Len(s) + 1, 3>>
\* Where a content ends, with the length of the marker that ends it.
ContentEnd(s, i, boundary) ==
    LET crlf == Find(<<CR, LF>> \o Marker(boundary), s, i)
        lf == Find(<<LF>> \o Marker(boundary), s, i)
    IN  CASE crlf # NotFound -> <<crlf, 4>>
          [] crlf = NotFound /\ lf # NotFound -> <<lf, 3>>
          [] OTHER -> <<Len(s) + 1, 3>>

\* The text after the first opening within a part's headers, up to the quote.
Quoted(opening, s, from, to) ==
    LET at == Find(opening, s, from) + Len(opening)
        close == Least({j \in at .. to - 1 : s[j] = Quote})
    IN  IF Find(opening, s, from) \notin from .. to - 1 THEN <<>>
        ELSE SubSeq(s, at, (IF close = NotFound THEN to ELSE close) - 1)

\* A part whose text after the boundary starts at i.
PartAt(s, i, boundary) ==
    LET start == SkipLineEnd(s, i)
        end == HeadersEnd(s, start)
        disposition == Find(<<Disposition>>, s, start)
        named == disposition \in start .. end - 1
        content == ContentEnd(s, ContentStart(s, start), boundary)
    IN  [name |-> IF named THEN Quoted(<<Name>>, s, disposition, end) ELSE <<>>,
         isFile |-> named /\ Find(<<File, Name>>, s, disposition) \in disposition .. end - 1,
         filename |-> IF named THEN Quoted(<<File, Name>>, s, disposition, end) ELSE <<>>,
         content |-> SubSeq(s, ContentStart(s, start), content[1] - 1),
         after |-> content[1] + content[2]]

\* The next part of the loops: the boundary that follows a place.
NextPart(s, i, boundary) ==
    IF Find(Marker(boundary), s, i) = NotFound THEN NotFound ELSE Find(Marker(boundary), s, i) + 2

\* The parts the loops over a body look at, from the one at i on.
PartsOf(s, boundary) ==
    LET parts[i \in 0 .. Len(s) + 2] ==
            IF \/ i = NotFound
               \/ i > Len(s)
               \/ OccursAt(<<Dashes>>, s, i)
               \/ HeadersEnd(s, SkipLineEnd(s, i)) = NotFound
            THEN <<>>
            ELSE LET part == PartAt(s, i, boundary)
                 IN  <<part>> \o
                     (IF OccursAt(<<Dashes>>, s, part.after) THEN <<>>
                      ELSE parts[NextPart(s, SkipLineEnd(s, part.after), boundary)])
    IN  IF s = <<>> \/ boundary = "" THEN <<>> ELSE parts[NextPart(s, 1, boundary)]

Trimmed(s) ==
    LET kept == {i \in 1 .. Len(s) : s[i] \notin Blank}
    IN  IF kept = {} THEN <<>> ELSE SubSeq(s, 1, CHOOSE i \in kept : \A j \in kept : j <= i)

\* kyl_request_parse_multipart_fields: the object, as pairs in its order
ParseMultipartFields(s, boundary) ==
    LET texts == SelectSeq(PartsOf(s, boundary), LAMBDA p : ~p.isFile /\ p.name # <<>>)
    IN  [i \in 1 .. Len(texts) |-> <<texts[i].name, Trimmed(texts[i].content)>>]

\* The first file part of a name: kyl_request_parse_multipart_file answers its file
\* name and content, kyl_request_save_multipart_file writes the content.
FilesNamed(s, boundary, field) ==
    SelectSeq(PartsOf(s, boundary), LAMBDA p : p.isFile /\ p.name = field /\ field # <<>>)
ParseMultipartFile(s, boundary, field) ==
    IF FilesNamed(s, boundary, field) = <<>> THEN Missing
    ELSE Head(FilesNamed(s, boundary, field)).filename \o <<"|">>
         \o Head(FilesNamed(s, boundary, field)).content

\* kyl_request_parse_multipart: the first part, whatever it is.  A content that is
\* empty is taken for one whose end was not found.
ParseMultipart(s, boundary) ==
    LET i == NextPart(s, 1, boundary)
        start == SkipLineEnd(s, i)
        part == PartAt(s, i, boundary)
        content == ContentStart(s, start)
        lf == Find(<<LF>> \o Marker(boundary), s, content)
        text == CASE part.content # <<>> -> part.content
                  [] part.content = <<>> /\ lf \notin {NotFound, content} -> SubSeq(s, content, lf - 1)
                  [] OTHER -> SubSeq(s, content, Len(s))
    IN  IF \/ s = <<>> \/ boundary = ""
           \/ i = NotFound \/ i > Len(s)
           \/ HeadersEnd(s, start) = NotFound
        THEN Missing
        ELSE part.filename \o <<"|">> \o text

\* kyl_request_get_multipart_field: looks for name="field" anywhere in the body and
\* takes what follows its line and one more line end.
GetMultipartField(s, boundary, field) ==
    LET at == Find(<<Name>> \o field \o <<Quote>>, s, 1)
        line == Find(<<LF>>, s, at) + 1
        cr == IF OccursAt(<<CR>>, s, line) THEN line + 1 ELSE line
        start == IF OccursAt(<<LF>>, s, cr) THEN cr + 1 ELSE cr
        end == ContentEnd(s, start, boundary)[1]
    IN  IF s = <<>> \/ boundary = "" \/ at = NotFound \/ Find(<<LF>>, s, at) = NotFound THEN <<>>
        ELSE Trimmed(SubSeq(s, start, end - 1))

----------------------------------------------------------------------------
(* A JSON body is a sequence of members: the key, whether white space      *)
(* follows its colon, and the value: its kind and its text, a sequence of  *)
(* pieces.  A string value may read like a key.                            *)

IsString(v) == v[1] = "string"
Key(key) == <<"string", <<key>>>>
Texts(members) == [i \in 1 .. 2 * Len(members) |->
    IF i % 2 = 1 THEN Key(members[(i + 1) \div 2].key) ELSE members[i \div 2].value]

\* json_extract_string_value, json_extract_number_value, json_extract_bool_value:
\* the first place that reads "key", which must be followed by a colon and a value of
\* the wanted kind
JsonValue(members, key, kind) ==
    LET at == Least({i \in 1 .. 2 * Len(members) : Texts(members)[i] = Key(key)})
        value == Texts(members)[at + 1]
    IN  IF at = NotFound \/ at % 2 = 0 \/ value[1] # kind THEN <<>> ELSE <<value[2]>>

\* The scanners of the bridge's own endpoints look for "key":" without white space.
JsonPattern(members, key) ==
    LET at == Least({i \in 1 .. Len(members) : /\ members[i].key = key
                                               /\ ~members[i].spaced
                                               /\ IsString(members[i].value)})
    IN  IF at = NotFound THEN <<>> ELSE <<members[at].value[2]>>
=============================================================================
