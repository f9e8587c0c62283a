----------------------------- MODULE FileNames -----------------------------
(* Where the name of a file comes from and what becomes of it: the URL of a   *)
(* link (util.c), the title yt-dlp reports (ytdlp.c), a file of an item of    *)
(* archive.org (archiveorg.c).  Native code makes a name of it, and the name  *)
(* goes the way of any text in JniText: to Java, where it becomes the output  *)
(* path of a link, to the engine, to the database and back.                   *)
(*                                                                            *)
(* A file of an item also becomes a link, and the link, given back by the     *)
(* user, a request for that file of the item.                                 *)
(*                                                                            *)
(* A URL is what follows its scheme; a link to a file of an item what follows *)
(* the identifier.                                                            *)
EXTENDS JniText

CONSTANTS
  Urls,    \* URLs that end as the name of a file
  Titles,  \* titles of media
  Exts,    \* file extensions yt-dlp reports
  Items    \* names of the files of an item

ASSUME NamesAssumption ==
  /\ Urls \cup Titles \subseteq Seq(Byte \ {0})
  /\ Exts \cup Items \subseteq Seq(Byte \ {0}) \ {<<>>}

VARIABLE
  of  \* history: a text, a name, a file of an item, or the link of that file

nameVars == <<textVars, of>>

SLASH == 47
BACKSLASH == 92
COLON == 58
DOT == 46
DASH == 45
PERCENT == 37
UNDERSCORE == 95
\* "download"
DEFAULT == <<100, 111, 119, 110, 108, 111, 97, 100>>

---------------------------------------------------------------------------
(* Percent-encoding *)

Digits == 48 .. 57
Letters == 65 .. 90 \cup 97 .. 122
HexDigits == Digits \cup 65 .. 70 \cup 97 .. 102
HexVal(c) ==
  CASE c \in Digits -> c - 48 [] c \in 65 .. 70 -> c - 55 [] c \in 97 .. 102 -> c - 87
HexDigit(v) == IF v < 10 THEN 48 + v ELSE 55 + v

\* Where an escape begins; escapes never overlap.
Escapes(s) ==
  {k \in 1 .. (Len(s) - 2) :
     s[k] = PERCENT /\ s[k + 1] \in HexDigits /\ s[k + 2] \in HexDigits}

PercentDecode(s) ==
  LET kept == {k \in DOMAIN s : k - 1 \notin Escapes(s) /\ k - 2 \notin Escapes(s)}
      Decoded(k) == IF k \in Escapes(s) THEN HexVal(s[k + 1]) * 16 + HexVal(s[k + 2])
                    ELSE ByteAt(s, k) IN
  CString([n \in 1 .. Cardinality(kept) |-> Decoded(Nth(kept, n))])

Unreserved == Letters \cup Digits \cup {DASH, UNDERSCORE, DOT, 126, SLASH}
AsciiKept == Unreserved \cup 33 .. 126
Plain == Unreserved

\* Each byte of s becomes one byte or three.
UrlEncodePath(s) ==
  LET Escape(c) == IF c \in Plain THEN <<c>>
                   ELSE <<PERCENT, HexDigit(c \div 16), HexDigit(c % 16)>>
      from[k \in 0 .. Len(s)] == IF k = 0 THEN <<>> ELSE from[k - 1] \o Escape(s[k]) IN
  from[Len(s)]

---------------------------------------------------------------------------
(* Names *)

Replaced(s, S) == [k \in DOMAIN s |-> IF s[k] \in S THEN UNDERSCORE ELSE s[k]]
Defused(s) == IF s # <<>> /\ s[1] \in {DOT, DASH} THEN [s EXCEPT ![1] = UNDERSCORE] ELSE s

\* What follows the last slash.
Leaf(s) ==
  SubSeq(s, Len(s) + 1 - Cardinality({k \in DOMAIN s : \A j \in k .. Len(s) : s[j] # SLASH}),
         Len(s))

\* Up to the query or the fragment.
PathOf(url) == UpTo(url, {63, 35})

FilenameFromUrl(url) ==
  LET name == Defused(Replaced(PercentDecode(Leaf(PathOf(url))), {SLASH, BACKSLASH})) IN
  IF name = <<>> THEN DEFAULT ELSE name

SanitizeFilename(s) ==
  IF s = <<>> THEN DEFAULT
  ELSE Defused(Replaced(s, {SLASH, BACKSLASH, COLON} \cup 1 .. 31))

BasenameOf(path) == SanitizeFilename(Leaf(path))

---------------------------------------------------------------------------
Named(name) ==
  /\ at' = "native" /\ text' = name /\ of' = <<"name", <<>>>>
  /\ UNCHANGED <<i, out, returned>>

NameFromUrl ==
  at = "url" /\ Named(FilenameFromUrl(text))

\* The extension, or "bin", goes behind the title; but what is to be fetched as
\* it is and has no known extension takes its name from its URL.
NameFromInfo ==
  /\ at = "title"
  /\ \/ \E ext \in Exts \cup {<<98, 105, 110>>} :
          Named(SanitizeFilename(text) \o <<DOT>> \o SanitizeFilename(ext))
     \/ \E url \in Urls : Named(FilenameFromUrl(url))

\* Of an item, all files, or the one asked for if the item has it.
NameFromItem ==
  /\ at = "item" /\ (of[1] = "link" => text = of[2])
  /\ Named(BasenameOf(text))

\* The link of a file, and the file asked for when that link is added again.
LinkFromItem ==
  /\ at = "item" /\ of[1] = "file"
  /\ at' = "link" /\ text' = UrlEncodePath(text) /\ of' = <<"link", text>>
  /\ UNCHANGED <<i, out, returned>>

FileAsked ==
  /\ at = "link"
  /\ at' = "item" /\ text' = PercentDecode(PathOf(text))
  /\ UNCHANGED <<of, i, out, returned>>

---------------------------------------------------------------------------
NamesInit ==
  \/ TextInit /\ of = <<"text", <<>>>>
  \/ /\ \/ at = "url" /\ text \in Urls
        \/ at = "title" /\ text \in Titles
        \/ at = "item" /\ text \in Items
     /\ of = <<IF at = "item" THEN "file" ELSE "text", <<>>>>
     /\ i = 0 /\ out = <<>> /\ returned = {}

NamesNext ==
  \/ NameFromUrl \/ NameFromInfo \/ NameFromItem
  \/ LinkFromItem \/ FileAsked
  \/ TextNext /\ UNCHANGED of

NamesSpec == NamesInit /\ [][NamesNext]_nameVars

---------------------------------------------------------------------------
(* Properties *)

\* One component of a path, which does not climb, hide or look like an option.
Confined(name) ==
  /\ name # <<>>
  /\ \A k \in DOMAIN name : name[k] \notin {SLASH, BACKSLASH}
  /\ name[1] \notin {DOT, DASH}

\* A name made by native code stays one component of a path below the download
\* directory, in native code and in Java, through every conversion: escapes,
\* overlong forms and broken bytes do not turn into a separator on the way
\* (util.c:188-191, ytdlp.c:48-50, QueueScheduler.kt:707-712).
NameConfined == of[1] = "name" /\ at \in {"native", "java"} => Confined(text)

\* The link of a file of an item, added again, asks for that file, whatever
\* bytes its name has (archiveorg.c:181-183).
LinkFindsFile == at = "item" /\ of[1] = "link" => text = of[2]
============================================================================
