-------------------------- MODULE MCLibraryUpload --------------------------
EXTENDS LibraryUpload, TLC

CONSTANTS b1, b2

Txt(b) == [body |-> b, epub |-> FALSE]
Epub(b) == [body |-> b, epub |-> TRUE]

\* A text, a text and an EPUB, a text and its own EPUB, an unreadable file first.
MCBatches == {<<Txt(b1)>>, <<Txt(b2), Epub(b1)>>, <<Txt(b1), Epub(b1)>>,
              <<Txt(NoBody), Epub(b2)>>}

Symmetry == Permutations(Uploads)
=============================================================================
