---------------------------- MODULE LanternWidget ----------------------------
(***************************************************************************)
(* What a lantern shows: ULanternWidget::InitWidget and the snapshot that  *)
(* ALanternManager::JustSpawnLantern takes of the widget for the lantern's *)
(* texture.                                                                *)
(*                                                                         *)
(* There is one widget for each lantern type, made in BeginPlay and used   *)
(* for every lantern of that type, so whatever InitWidget does not set is  *)
(* left from an earlier lantern.                                           *)
(*                                                                         *)
(* A message is a number and its text is its length after "\n" has been    *)
(* replaced; a text block holds the set of the characters <<m, i>> (the    *)
(* i-th character of message m) that it displays, the image block the set  *)
(* of the message whose texture it has.  Message 0 is the designer's       *)
(* placeholder content.                                                    *)
(***************************************************************************)
EXTENDS Naturals, Sequences

CONSTANTS
  Types,        \* LanternTypeArray
  Lengths,      \* text lengths to try
  MaxMessages   \* bound: lanterns spawned

ASSUME LengthsAssumption == Lengths \subseteq Nat
ASSUME MaxMessagesAssumption == MaxMessages \in Nat

VARIABLES
  widget,   \* widget[t]: the widget of type t
  lantern,  \* the last lantern spawned, and what its snapshot shows
  spawned   \* lanterns spawned

vars == <<widget, lantern, spawned>>

\* TB_Text_1 .. TB_Text_6; the page of the switcher they are on.
Blocks == 1 .. 6
BlocksOf(page) == IF page = 0 THEN {1, 2} ELSE {3, 4, 5, 6}

Char == (0 .. MaxMessages) \X (Nat \ {0})

Widget == [page: {0, 1}, image: SUBSET (0 .. MaxMessages),
           text: [Blocks -> SUBSET Char]]

NoLantern == [m |-> 0, image |-> FALSE, len |-> 0, shown |-> <<>>]

\* What is on the visible page: the image is on page 0 only.
Visible(w) == [image |-> IF w.page = 0 THEN w.image ELSE {},
               text |-> [b \in BlocksOf(w.page) |-> w.text[b]]]

TypeOK ==
  /\ widget \in [Types -> Widget]
  /\ spawned \in 0 .. MaxMessages
  /\ lantern.m = spawned /\ lantern.image \in BOOLEAN /\ lantern.len \in Nat

Designed(page) == [page |-> page, image |-> {0}, text |-> [b \in Blocks |-> {<<0, b>>}]]

\* BeginPlay's SpawnAndDestroyLantern has randomised the page of one widget.
Init ==
  /\ \E t \in Types, page \in {0, 1} :
       widget = [u \in Types |-> Designed(IF u = t THEN page ELSE 0)]
  /\ lantern = NoLantern
  /\ spawned = 0

-----------------------------------------------------------------------------

Texture(m, image) == IF image THEN {m} ELSE {}

\* Variant: every slice after the first begins one character late.
VerticalTextSetLate(text, m, len, boxes) ==
  [b \in Blocks |->
     IF \E k \in DOMAIN boxes : boxes[k] = b
     THEN {<<m, i>> : i \in {i \in 1 .. len :
                               \E k \in DOMAIN boxes :
                                 boxes[k] = b /\ i \in 9 * k - 8 .. 9 * k - 1}}
     ELSE text[b]]

\* Left(8), Mid(8, 8), ... of a text, one for each of the boxes; a box the text
\* does not reach is set empty, the other blocks keep what they have.
VerticalTextSet(text, m, len, boxes) ==
  [b \in Blocks |->
     IF \E k \in DOMAIN boxes : boxes[k] = b
     THEN {<<m, i>> : i \in {i \in 1 .. len :
                               \E k \in DOMAIN boxes :
                                 boxes[k] = b /\ i \in 8 * k - 7 .. 8 * k}}
     ELSE text[b]]

Cleared(text, boxes) == [b \in Blocks |-> IF b \in boxes THEN {} ELSE text[b]]

\* Variant: the upper end of RandRange is taken to be outside.
RandomizeBeyond(w) == {[w EXCEPT !.page = page] : page \in {0, 1, 2}}

\* Neither texture nor text: a page at random, with the content it has.
Randomize(w) == {[w EXCEPT !.page = page] : page \in {0, 1}}

LongText(len) == len > 16 /\ len < 32

\* Case 1, text only; a texture that comes with a long text is not used.
ShowText(w, m, len) ==
  [w EXCEPT !.page = 1,
            !.text = VerticalTextSet(w.text, m, len, <<3, 4, 5, 6>>)]

\* Variant: the text blocks of the page are left as they are.
ShowImageOnly(w, m) == [w EXCEPT !.page = 0, !.image = {m}]

\* Case 2, image only.
ShowImage(w, m) ==
  [w EXCEPT !.page = 0, !.image = {m}, !.text = Cleared(w.text, {1, 2})]

\* Variant: a short text leaves the brush alone.
ShowImageAndTextOnly(w, m, image, len) ==
  [w EXCEPT !.page = 0,
            !.text = Cleared(VerticalTextSet(w.text, m, len, <<1, 2>>), {3, 4})]

\* Case 3, image and text: everything else, the longest texts included.
ShowImageAndText(w, m, image, len) ==
  [w EXCEPT !.page = 0, !.image = Texture(m, image),
            !.text = Cleared(VerticalTextSet(w.text, m, len, <<1, 2>>), {3, 4})]

\* The widgets InitWidget may leave; the truncation to 32 characters at its end
\* changes a local copy only.
InitWidget(w, m, image, len) ==
  CASE ~image /\ len = 0 -> Randomize(w)
    [] LongText(len) -> {ShowText(w, m, len)}
    [] image /\ len = 0 -> {ShowImage(w, m)}
    [] len > 0 /\ ~LongText(len) -> {ShowImageAndText(w, m, image, len)}

\* JustSpawnLantern: a type at random, InitWidget, and the snapshot.
JustSpawnLantern(image, len) ==
  /\ spawned < MaxMessages
  /\ spawned' = spawned + 1
  /\ \E t \in Types : \E new \in InitWidget(widget[t], spawned + 1, image, len) :
       /\ widget' = [widget EXCEPT ![t] = new]
       /\ lantern' = [m |-> spawned + 1, image |-> image, len |-> len,
                      shown |-> Visible(new)]

Next == \E image \in BOOLEAN, len \in Lengths : JustSpawnLantern(image, len)

Spec == Init /\ [][Next]_vars

-----------------------------------------------------------------------------
(* Properties of the last lantern's snapshot *)

Shown == lantern.shown
ShownText == UNION {Shown.text[b] : b \in DOMAIN Shown.text}

\* The lantern was given something to show: InitWidget does not randomise.
HasContent == spawned > 0 /\ (lantern.image \/ lantern.len > 0)

\* A lantern shows nothing of an earlier one, although they share the widget;
\* the exception is the lantern with neither texture nor text.
NoStaleContent ==
  HasContent => /\ Shown.image \subseteq {lantern.m}
                /\ \A c \in ShownText : c[1] = lantern.m

\* A text of up to 31 characters is displayed whole, and the first 16 of any;
\* it reads in order from block to block, no character twice.
TextComplete ==
  HasContent =>
    /\ \A i \in 1 .. lantern.len :
         i <= 16 \/ lantern.len < 32 => <<lantern.m, i>> \in ShownText
    /\ \A b, c \in DOMAIN Shown.text :
         b < c => \A p \in Shown.text[b], q \in Shown.text[c] : p[2] < q[2]

\* A texture is displayed, and only then is the image block in use, except that
\* a long text takes its place.
ImageShown ==
  HasContent => (lantern.m \in Shown.image <=> lantern.image /\ ~LongText(lantern.len))

\* LanternWidget.cpp:24 "Case 1: Text only, up to 32 char": 32 characters are
\* still a text that is displayed whole.
UpTo32 ==
  HasContent /\ ~lantern.image /\ lantern.len <= 32 =>
    \A i \in 1 .. lantern.len : <<lantern.m, i>> \in ShownText

=============================================================================
