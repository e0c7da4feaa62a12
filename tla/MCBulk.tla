-------------------------------- MODULE MCBulk --------------------------------
(***************************************************************************)
(* Small instances of Bulk: two requests at once, each about two cameras at  *)
(* most and an id that is nobody's.                                         *)
(***************************************************************************)
EXTENDS Bulk

CONSTANTS o1, o2, a, b, x, bri, hmir, recsec

On(f) == [g \in {f} |-> 1]
Off(f) == [g \in {f} |-> 0]
(* All is on but for a's and b's brightness; or b says one that is no number. *)
Brightness(va, vb) ==
  [c \in {a, b} |-> [f \in {bri, hmir, recsec} |-> IF f # bri THEN 1 ELSE IF c = a THEN va ELSE vb]]
SomeStarts == {Brightness(0, 0), Brightness(0, Bad)}

Apply(ids, image, recording) ==
  [kind |-> "settings", ids |-> ids, image |-> image, recording |-> recording]
FlashOf(ids) == [kind |-> "flash", ids |-> ids, image |-> <<>>, recording |-> <<>>]

Both   == Apply(<<a>>, On(bri), Off(recsec))
Twin   == Apply(<<b, a>>, Off(hmir), <<>>)
Wrong  == Apply(<<x, a>>, On(bri), [f \in {recsec} |-> Bad])
Idle   == Apply(<<b>>, <<>>, <<>>)
Flash  == FlashOf(<<a, x, b>>)
Again  == FlashOf(<<b, a, b>>)

Two(r, s) == [o \in {o1, o2} |-> IF o = o1 THEN r ELSE s]
SomeRequests == {Two(Both, Both), Two(Both, Twin), Two(Wrong, Twin), Two(Idle, Twin),
                 Two(Both, Flash), Two(Flash, Again)}
=============================================================================
