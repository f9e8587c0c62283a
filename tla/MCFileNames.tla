---------------------------- MODULE MCFileNames ----------------------------
(* Inputs for FileNames: sequences of up to three pieces.                   *)
EXTENDS FileNames

Joined(Pieces) ==
  {<<>>} \cup Pieces \cup {a \o b : a \in Pieces, b \in Pieces}
         \cup {a \o b \o c : a \in Pieces, b \in Pieces, c \in Pieces}

\* A letter, the bytes that matter to a path or a URL, raw and escaped; an
\* escaped lead and continuation that make an overlong slash; a raw emoji.
UrlPieces ==
  {<<97>>, <<46>>, <<45>>, <<47>>, <<63>>, <<37>>, <<37, 50, 70>>, <<37, 50, 101>>,
   <<37, 48, 48>>, <<37, 53, 67>>, <<37, 67, 48>>, <<37, 65, 70>>,
   <<240, 159, 152, 128>>}
MCUrls == Joined(UrlPieces)

NamePieces ==
  {<<97>>, <<46>>, <<45>>, <<47>>, <<92>>, <<58>>, <<37>>, <<50, 70>>, <<63>>, <<10>>,
   <<195, 169>>}
MCItems == Joined(NamePieces) \ {<<>>}
MCTitles == Joined({<<97>>, <<46>>, <<47>>, <<58>>, <<226, 130, 172>>})
MCExts == {<<109, 112, 52>>, <<46, 47>>}

\* Whole, broken, overlong, out of range, surrogate, stray.
BytePieces ==
  {<<65>>, <<128>>, <<128, 175>>, <<192>>, <<195, 169>>, <<224>>, <<226, 130, 172>>,
   <<237, 160>>, <<240>>, <<240, 159, 152, 128>>, <<244, 144>>, <<255>>}
MCNativeTexts == Joined(BytePieces)

\* One unit of each length, a NUL, the two halves of a pair.
MCJavaTexts == Joined({<<0>>, <<65>>, <<233>>, <<8364>>, <<55357>>, <<56832>>})
============================================================================
