------------------------- MODULE LanternWidgetProofs -------------------------
(***************************************************************************)
(* Theorems about LanternWidget: what a lantern shows, for any number of   *)
(* lantern types, of lanterns, and any lengths of their texts.             *)
(***************************************************************************)
EXTENDS LanternWidget, TLAPS

-----------------------------------------------------------------------------
(* The text blocks *)

\* The characters of a text of length len in one box.
Slice(m, len, k) == {<<m, i>> : i \in {i \in 1 .. len : i \in 8 * k - 7 .. 8 * k}}

LEMMA SliceFacts ==
  ASSUME NEW m, NEW len \in Nat, NEW k \in Nat
  PROVE  /\ \A c \in Slice(m, len, k) : c[1] = m /\ c[2] \in 8 * k - 7 .. 8 * k
         /\ \A i \in 1 .. len : i \in 8 * k - 7 .. 8 * k => <<m, i>> \in Slice(m, len, k)
BY DEF Slice

\* The two blocks of the page with the image.
LEMMA TwoBoxes ==
  ASSUME NEW text \in [Blocks -> SUBSET Char], NEW m, NEW len \in Nat
  PROVE  LET set == VerticalTextSet(text, m, len, <<1, 2>>) IN
         \A b \in Blocks : set[b] = IF b \in {1, 2} THEN Slice(m, len, b) ELSE text[b]
<1>1. DOMAIN <<1, 2>> = {1, 2} /\ <<1, 2>>[1] = 1 /\ <<1, 2>>[2] = 2
  OBVIOUS
<1> SUFFICES ASSUME NEW b \in Blocks
             PROVE  VerticalTextSet(text, m, len, <<1, 2>>)[b]
                      = IF b \in {1, 2} THEN Slice(m, len, b) ELSE text[b]
  OBVIOUS
<1>2. (\E k \in DOMAIN <<1, 2>> : <<1, 2>>[k] = b) <=> b \in {1, 2}
  BY <1>1
<1>3. ASSUME b \in {1, 2}, NEW i
      PROVE  (\E k \in DOMAIN <<1, 2>> : <<1, 2>>[k] = b /\ i \in 8 * k - 7 .. 8 * k)
               <=> i \in 8 * b - 7 .. 8 * b
  BY <1>1, <1>3
<1> QED BY <1>2, <1>3 DEF VerticalTextSet, Slice

\* The four blocks of the page with text only.
LEMMA FourBoxes ==
  ASSUME NEW text \in [Blocks -> SUBSET Char], NEW m, NEW len \in Nat
  PROVE  LET set == VerticalTextSet(text, m, len, <<3, 4, 5, 6>>) IN
         \A b \in Blocks : set[b] = IF b \in {3, 4, 5, 6} THEN Slice(m, len, b - 2)
                                                          ELSE text[b]
<1>1. /\ DOMAIN <<3, 4, 5, 6>> = {1, 2, 3, 4}
      /\ <<3, 4, 5, 6>>[1] = 3 /\ <<3, 4, 5, 6>>[2] = 4
      /\ <<3, 4, 5, 6>>[3] = 5 /\ <<3, 4, 5, 6>>[4] = 6
  OBVIOUS
<1> SUFFICES ASSUME NEW b \in Blocks
             PROVE  VerticalTextSet(text, m, len, <<3, 4, 5, 6>>)[b]
                      = IF b \in {3, 4, 5, 6} THEN Slice(m, len, b - 2) ELSE text[b]
  OBVIOUS
<1>2. (\E k \in DOMAIN <<3, 4, 5, 6>> : <<3, 4, 5, 6>>[k] = b) <=> b \in {3, 4, 5, 6}
  BY <1>1
<1>3. ASSUME b \in {3, 4, 5, 6}, NEW i
      PROVE  (\E k \in DOMAIN <<3, 4, 5, 6>> :
                <<3, 4, 5, 6>>[k] = b /\ i \in 8 * k - 7 .. 8 * k)
               <=> i \in 8 * (b - 2) - 7 .. 8 * (b - 2)
  BY <1>1, <1>3
<1> QED BY <1>2, <1>3 DEF VerticalTextSet, Slice

-----------------------------------------------------------------------------
(* InitWidget *)

\* What is shown of message m by each case of InitWidget but the random one.
ShowsText(shown, m, len) ==
  /\ LongText(len)
  /\ shown.image = {}
  /\ DOMAIN shown.text = {3, 4, 5, 6}
  /\ \A b \in {3, 4, 5, 6} : shown.text[b] = Slice(m, len, b - 2)

ShowsImage(shown, m, image, len) ==
  /\ image /\ len = 0
  /\ shown.image = {m}
  /\ DOMAIN shown.text = {1, 2}
  /\ \A b \in {1, 2} : shown.text[b] = {}

ShowsImageAndText(shown, m, image, len) ==
  /\ len > 0 /\ ~LongText(len)
  /\ shown.image = Texture(m, image)
  /\ DOMAIN shown.text = {1, 2}
  /\ \A b \in {1, 2} : shown.text[b] = Slice(m, len, b)

LEMMA InitWidgetShows ==
  ASSUME NEW w \in Widget, NEW m \in 1 .. MaxMessages, NEW image \in BOOLEAN, NEW len \in Nat,
         NEW new \in InitWidget(w, m, image, len)
  PROVE  /\ new \in Widget
         /\ \/ ~image /\ len = 0
            \/ ShowsText(Visible(new), m, len)
            \/ ShowsImage(Visible(new), m, image, len)
            \/ ShowsImageAndText(Visible(new), m, image, len)
<1>0. /\ w.text \in [Blocks -> SUBSET Char] /\ w.image \in SUBSET (0 .. MaxMessages)
      /\ MaxMessages \in Nat /\ m \in 0 .. MaxMessages
  BY MaxMessagesAssumption DEF Widget
<1>1. ASSUME NEW k \in Nat, k >= 1 PROVE Slice(m, len, k) \subseteq Char
  BY <1>0, <1>1 DEF Slice, Char
<1>2. CASE ~image /\ len = 0
  <2>1. new \in Randomize(w)
    BY <1>2 DEF InitWidget, LongText
  <2> QED BY <1>2, <2>1 DEF Randomize, Widget
<1>3. CASE LongText(len)
  <2> DEFINE text == VerticalTextSet(w.text, m, len, <<3, 4, 5, 6>>)
  <2>1. new = ShowText(w, m, len)
    BY <1>3 DEF InitWidget, LongText
  <2>2. new = [page |-> 1, image |-> w.image, text |-> text]
    BY <2>1 DEF ShowText, Widget
  <2>3. \A b \in Blocks : text[b] = IF b \in {3, 4, 5, 6} THEN Slice(m, len, b - 2)
                                                         ELSE w.text[b]
    BY <1>0, FourBoxes
  <2>4. text \in [Blocks -> SUBSET Char]
    <3>1. text = [b \in Blocks |-> text[b]]
      BY DEF VerticalTextSet
    <3>2. ASSUME NEW b \in Blocks PROVE text[b] \in SUBSET Char
      <4> HIDE DEF text
      <4>1. CASE b \in {3, 4, 5, 6}
        BY <1>1, <2>3, <4>1
      <4>2. CASE b \notin {3, 4, 5, 6}
        BY <1>0, <2>3, <4>2
      <4> QED BY <4>1, <4>2
    <3> HIDE DEF text
    <3> QED BY <3>1, <3>2
  <2> HIDE DEF text
  <2>5. new \in Widget
    BY <1>0, <2>2, <2>4 DEF Widget
  <2>6. ShowsText(Visible(new), m, len)
    BY <1>3, <2>2, <2>3 DEF ShowsText, Visible, BlocksOf, Blocks
  <2> QED BY <2>5, <2>6
<1>4. CASE image /\ len = 0
  <2>1. new = ShowImage(w, m)
    BY <1>4 DEF InitWidget, LongText
  <2>2. new = [page |-> 0, image |-> {m}, text |-> Cleared(w.text, {1, 2})]
    BY <2>1 DEF ShowImage, Widget
  <2>3. Cleared(w.text, {1, 2}) \in [Blocks -> SUBSET Char]
    BY <1>0 DEF Cleared
  <2>4. \A b \in {1, 2} : Cleared(w.text, {1, 2})[b] = {}
    BY DEF Cleared, Blocks
  <2>5. new \in Widget
    BY <1>0, <2>2, <2>3 DEF Widget
  <2>6. ShowsImage(Visible(new), m, image, len)
    BY <1>4, <2>2, <2>4 DEF ShowsImage, Visible, BlocksOf
  <2> QED BY <2>5, <2>6
<1>5. CASE len > 0 /\ ~LongText(len)
  <2> DEFINE set == VerticalTextSet(w.text, m, len, <<1, 2>>)
             text == Cleared(set, {3, 4})
  <2>1. new = ShowImageAndText(w, m, image, len)
    BY <1>5 DEF InitWidget
  <2>2. new = [page |-> 0, image |-> Texture(m, image), text |-> text]
    BY <2>1 DEF ShowImageAndText, Widget
  <2>3. \A b \in Blocks : set[b] = IF b \in {1, 2} THEN Slice(m, len, b) ELSE w.text[b]
    BY <1>0, TwoBoxes
  <2> HIDE DEF set
  <2>4. /\ text = [b \in Blocks |-> text[b]]
        /\ \A b \in Blocks : text[b] = IF b \in {3, 4} THEN {} ELSE set[b]
    BY DEF Cleared
  <2> HIDE DEF text
  <2>5. text \in [Blocks -> SUBSET Char]
    <3>1. ASSUME NEW b \in Blocks PROVE text[b] \in SUBSET Char
      <4>1. CASE b \in {3, 4}
        BY <2>4, <4>1
      <4>2. CASE b \in {1, 2}
        BY <1>1, <2>3, <2>4, <4>2
      <4>3. CASE b \notin {1, 2, 3, 4}
        BY <1>0, <2>3, <2>4, <4>3
      <4> QED BY <4>1, <4>2, <4>3
    <3> QED BY <2>4, <3>1
  <2>6. new \in Widget
    BY <1>0, <2>2, <2>5 DEF Widget, Texture
  <2>7. ShowsImageAndText(Visible(new), m, image, len)
    BY <1>5, <2>2, <2>3, <2>4 DEF ShowsImageAndText, Visible, BlocksOf, Blocks
  <2> QED BY <2>6, <2>7
<1> QED BY <1>2, <1>3, <1>4, <1>5

-----------------------------------------------------------------------------
(* The lantern *)

\* What the last lantern shows, whichever widget it was shown by.
LanternInv ==
  HasContent =>
    \/ ShowsText(Shown, lantern.m, lantern.len)
    \/ ShowsImage(Shown, lantern.m, lantern.image, lantern.len)
    \/ ShowsImageAndText(Shown, lantern.m, lantern.image, lantern.len)

LEMMA TypeStep ==
  ASSUME TypeOK, LanternInv, [Next]_vars
  PROVE  TypeOK' /\ LanternInv'
<1>1. CASE UNCHANGED vars
  BY <1>1 DEF vars, TypeOK, LanternInv, HasContent, Shown, ShowsText, ShowsImage,
              ShowsImageAndText
<1>2. CASE Next
  <2>1. PICK image \in BOOLEAN, len \in Lengths : JustSpawnLantern(image, len)
    BY <1>2 DEF Next
  <2>2. PICK t \in Types : \E new \in InitWidget(widget[t], spawned + 1, image, len) :
                             /\ widget' = [widget EXCEPT ![t] = new]
                             /\ lantern' = [m |-> spawned + 1, image |-> image, len |-> len,
                                            shown |-> Visible(new)]
    BY <2>1 DEF JustSpawnLantern
  <2>3. PICK new \in InitWidget(widget[t], spawned + 1, image, len) :
          /\ widget' = [widget EXCEPT ![t] = new]
          /\ lantern' = [m |-> spawned + 1, image |-> image, len |-> len,
                         shown |-> Visible(new)]
    BY <2>2
  <2>4. /\ spawned' = spawned + 1 /\ spawned' \in 1 .. MaxMessages
        /\ widget[t] \in Widget /\ len \in Nat
    BY <2>1, MaxMessagesAssumption, LengthsAssumption DEF JustSpawnLantern, TypeOK
  <2>5. /\ new \in Widget
        /\ \/ ~image /\ len = 0
           \/ ShowsText(Visible(new), spawned', len)
           \/ ShowsImage(Visible(new), spawned', image, len)
           \/ ShowsImageAndText(Visible(new), spawned', image, len)
    BY <2>3, <2>4, InitWidgetShows
  <2>6. TypeOK'
    BY <2>3, <2>4, <2>5 DEF TypeOK
  <2>7. LanternInv'
    BY <2>3, <2>4, <2>5 DEF LanternInv, HasContent, Shown
  <2> QED BY <2>6, <2>7
<1> QED BY <1>1, <1>2

\* The widgets keep their type, and the last lantern shows what one of the cases
\* of InitWidget makes of its own texture and text.
THEOREM TypeCorrect == Spec => [](TypeOK /\ LanternInv)
<1>1. Init => TypeOK /\ LanternInv
  <2> SUFFICES ASSUME Init PROVE TypeOK /\ LanternInv
    OBVIOUS
  <2>1. spawned = 0
    BY DEF Init
  <2>2. LanternInv
    BY <2>1 DEF LanternInv, HasContent
  <2>3. ASSUME NEW page \in {0, 1} PROVE Designed(page) \in Widget
    BY <2>3, MaxMessagesAssumption DEF Designed, Widget, Blocks, Char
  <2>4. widget \in [Types -> Widget]
    BY <2>3 DEF Init
  <2> QED BY <2>1, <2>2, <2>4, MaxMessagesAssumption DEF Init, NoLantern, TypeOK
<1> QED BY <1>1, TypeStep, PTL DEF Spec

\* A lantern shows nothing of an earlier one, although they share the widget.
THEOREM NothingStale == Spec => []NoStaleContent
<1>1. TypeOK /\ LanternInv => NoStaleContent
  <2> SUFFICES ASSUME TypeOK, LanternInv, HasContent
               PROVE  /\ Shown.image \subseteq {lantern.m}
                      /\ \A b \in DOMAIN Shown.text : \A c \in Shown.text[b] : c[1] = lantern.m
    BY DEF NoStaleContent, ShownText
  <2>1. CASE ShowsText(Shown, lantern.m, lantern.len)
    BY <2>1, SliceFacts DEF TypeOK, ShowsText
  <2>2. CASE ShowsImage(Shown, lantern.m, lantern.image, lantern.len)
    BY <2>2 DEF ShowsImage
  <2>3. CASE ShowsImageAndText(Shown, lantern.m, lantern.image, lantern.len)
    BY <2>3, SliceFacts DEF TypeOK, ShowsImageAndText, Texture
  <2> QED BY <2>1, <2>2, <2>3 DEF LanternInv
<1> QED BY <1>1, TypeCorrect, PTL

\* A text of up to 31 characters is displayed whole, the first 16 characters of
\* any, and its blocks are read in order.
THEOREM TextCorrect == Spec => []TextComplete
<1>1. TypeOK /\ LanternInv => TextComplete
  <2> SUFFICES ASSUME TypeOK, LanternInv, HasContent
               PROVE  /\ \A i \in 1 .. lantern.len :
                           i <= 16 \/ lantern.len < 32 =>
                             \E b \in DOMAIN Shown.text : <<lantern.m, i>> \in Shown.text[b]
                      /\ \A b, c \in DOMAIN Shown.text :
                           b < c => \A p \in Shown.text[b], q \in Shown.text[c] : p[2] < q[2]
    BY DEF TextComplete, ShownText
  <2>0. lantern.len \in Nat
    BY DEF TypeOK
  <2>1. CASE ShowsText(Shown, lantern.m, lantern.len)
    <3>1. ASSUME NEW i \in 1 .. lantern.len
          PROVE  \E b \in {3, 4, 5, 6} : i \in 8 * (b - 2) - 7 .. 8 * (b - 2)
      <4>1. i \in 1 .. 8 \/ i \in 9 .. 16 \/ i \in 17 .. 24 \/ i \in 25 .. 32
        BY <2>0, <2>1 DEF ShowsText, LongText
      <4> QED BY <4>1
    <3>2. ASSUME NEW i \in 1 .. lantern.len
          PROVE  \E b \in DOMAIN Shown.text : <<lantern.m, i>> \in Shown.text[b]
      <4>1. PICK b \in {3, 4, 5, 6} : i \in 8 * (b - 2) - 7 .. 8 * (b - 2)
        BY <3>1
      <4>2. <<lantern.m, i>> \in Slice(lantern.m, lantern.len, b - 2)
        BY <2>0, <4>1, SliceFacts
      <4> QED BY <2>1, <4>2 DEF ShowsText
    <3>3. ASSUME NEW b \in {3, 4, 5, 6}, NEW c \in {3, 4, 5, 6}, b < c,
                 NEW p \in Slice(lantern.m, lantern.len, b - 2),
                 NEW q \in Slice(lantern.m, lantern.len, c - 2)
          PROVE  p[2] < q[2]
      <4>1. p[2] \in 8 * (b - 2) - 7 .. 8 * (b - 2) /\ q[2] \in 8 * (c - 2) - 7 .. 8 * (c - 2)
        BY <2>0, SliceFacts
      <4> QED BY <3>3, <4>1
    <3> QED BY <2>1, <3>2, <3>3 DEF ShowsText
  <2>2. CASE ShowsImage(Shown, lantern.m, lantern.image, lantern.len)
    BY <2>2 DEF ShowsImage
  <2>3. CASE ShowsImageAndText(Shown, lantern.m, lantern.image, lantern.len)
    <3>1. ASSUME NEW i \in 1 .. lantern.len, i <= 16 \/ lantern.len < 32
          PROVE  \E b \in DOMAIN Shown.text : <<lantern.m, i>> \in Shown.text[b]
      <4>1. i \in 1 .. 8 \/ i \in 9 .. 16
        BY <2>0, <2>3, <3>1 DEF ShowsImageAndText, LongText
      <4>2. PICK b \in {1, 2} : i \in 8 * b - 7 .. 8 * b
        BY <4>1
      <4>3. <<lantern.m, i>> \in Slice(lantern.m, lantern.len, b)
        BY <2>0, <4>2, SliceFacts
      <4> QED BY <2>3, <4>3 DEF ShowsImageAndText
    <3>2. ASSUME NEW b \in {1, 2}, NEW c \in {1, 2}, b < c,
                 NEW p \in Slice(lantern.m, lantern.len, b),
                 NEW q \in Slice(lantern.m, lantern.len, c)
          PROVE  p[2] < q[2]
      <4>1. p[2] \in 8 * b - 7 .. 8 * b /\ q[2] \in 8 * c - 7 .. 8 * c
        BY <2>0, SliceFacts
      <4> QED BY <3>2, <4>1
    <3> QED BY <2>3, <3>1, <3>2 DEF ShowsImageAndText
  <2> QED BY <2>1, <2>2, <2>3 DEF LanternInv
<1> QED BY <1>1, TypeCorrect, PTL

\* A texture is displayed unless a long text takes its place.
THEOREM ImageCorrect == Spec => []ImageShown
<1>1. TypeOK /\ LanternInv => ImageShown
  <2> SUFFICES ASSUME TypeOK, LanternInv, HasContent
               PROVE  lantern.m \in Shown.image <=> lantern.image /\ ~LongText(lantern.len)
    BY DEF ImageShown
  <2>1. CASE ShowsText(Shown, lantern.m, lantern.len)
    BY <2>1 DEF ShowsText
  <2>2. CASE ShowsImage(Shown, lantern.m, lantern.image, lantern.len)
    BY <2>2 DEF ShowsImage, LongText
  <2>3. CASE ShowsImageAndText(Shown, lantern.m, lantern.image, lantern.len)
    BY <2>3 DEF ShowsImageAndText, Texture
  <2> QED BY <2>1, <2>2, <2>3 DEF LanternInv
<1> QED BY <1>1, TypeCorrect, PTL

=============================================================================
