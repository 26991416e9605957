--------------------------- MODULE WindowsProofs ----------------------------
(***************************************************************************)
(* Proofs about Windows, for any lists, texts, fields and sizes of the     *)
(* screen: what the windows show is what they hold (WindowsTrue), and a    *)
(* key moves by what it says (KeysMove).  The invariant adds to            *)
(* WindowsTrue how large a window is, that what a resize starts from is    *)
(* sound even where the window is excepted, and that a page of text is     *)
(* full unless the end of the text is reached.                             *)
(***************************************************************************)
EXTENDS Windows, TLAPS

CallInv == lines \in Heights /\ s_scroll \in Nat /\ outer \in Seq(Nat)

\* c is one of n lines, and if there are none what the keys leave.
OnLine(n, c) == IF n > 0 THEN c \in 0 .. n - 1 ELSE c \in {-1, 0}

ListShape ==
    /\ items \in Nat /\ max_choice \in Nat /\ scroll \in Nat /\ choice \in Int
    /\ selected \in -1 .. items - 1 /\ misdrawn \in BOOLEAN
    /\ scroll + max_choice <= items
    /\ OnLine(max_choice, choice)
    /\ lit = {choice}

ListShown ==
    ~misdrawn => /\ row = [r \in Lines |-> scroll + r]
                 /\ arrows = <<scroll > 0, scroll + max_choice < items>>

\* The largest number of lines there may be of a list.
Room == IF open = "menu" THEN MenuHeight(lines) ELSE ListHeight

ListInv ==
    open \in {"menu", "list"} =>
        /\ IF open = "menu" THEN MenuRoom(lines) ELSE ListRoom(lines) /\ items > 0
        /\ max_choice = AtMost(Room, items)
        /\ ListShape
        /\ ListShown

InputInv ==
    open = "input" =>
        /\ InputRoom(lines)
        /\ strlen \in 0 .. MAX_LEN /\ offset \in Nat /\ input_x \in Int /\ astray \in BOOLEAN
        /\ Cursor >= 0
        /\ ~astray => input_x \in 0 .. Width - 1 /\ Cursor = strlen

TextShape ==
    /\ page \in 0 .. length + 1 /\ page_length \in 1 .. boxh
    /\ TextTop \in 0 .. length
    /\ begin_reached \in BOOLEAN /\ (begin_reached <=> TextTop = 0)
    /\ page <= length => page_length = boxh
    /\ screen = [r \in Rows(boxh) |-> AtMost(TextTop + r, length)]

TextInv ==
    open = "text" =>
        /\ TextRoom(lines)
        /\ length \in Nat \ {0} /\ fixed \in {0, 5, 6} /\ boxh \in Nat \ {0}
        /\ Ended(fixed) => TextShape

Shown == ListInv /\ InputInv /\ TextInv
IInv == CallInv /\ Shown
-----------------------------------------------------------------------------
(* A screen that has room for a text has at least two lines for it.        *)
LEMMA RoomForText ==
    ASSUME NEW h \in Heights, TextRoom(h) PROVE h \in Nat /\ h - 8 \in Nat \ {0}
BY HeightsAssumption DEF TextRoom

(* Where dialog_menu starts to show a list, the highlight is in the window *)
(* and the window within the list.                                         *)
LEMMA ScrollForFits ==
    ASSUME NEW n \in Nat, NEW h \in Nat, h > 0, NEW c \in Int, NEW s \in Nat,
           OnLine(n, c),
           NEW max, max = AtMost(h, n),
           NEW t, t = ScrollFor(n, max, c, s)
    PROVE  /\ max \in Nat /\ t \in Nat /\ t + max <= n
           /\ OnLine(max, c - t)
<1>1. max \in Nat /\ max <= n /\ (n > 0 => max > 0) /\ (n = 0 => max = 0)
  BY DEF AtMost
<1>a. PICK half \in Nat : half = max \div 2 /\ half <= max /\ max <= 2 * half + 1
  BY <1>1
<1>2. CASE SavedFits(n, max, c, s)
  <2>1. t = s
    BY <1>2 DEF ScrollFor
  <2> QED BY <1>1, <1>2, <2>1 DEF SavedFits, OnLine
<1>3. CASE ~SavedFits(n, max, c, s) /\ c < max
  <2>1. t = 0
    BY <1>3 DEF ScrollFor
  <2> QED BY <1>1, <1>3, <2>1 DEF OnLine
<1>4. CASE ~SavedFits(n, max, c, s) /\ ~(c < max) /\ c >= n - max \div 2
  <2>1. t = n - max
    BY <1>4 DEF ScrollFor
  <2>2. c >= n - half
    BY <1>4, <1>a
  <2>3. CASE n = 0
    <3>1. c = 0 /\ t = 0
      BY <1>1, <2>1, <2>2, <2>3, <1>a DEF OnLine
    <3> QED BY <1>1, <2>3, <3>1 DEF OnLine
  <2>4. CASE n > 0
    <3>1. 0 <= c /\ c < n
      BY <2>4 DEF OnLine
    <3>2. c - t >= 0 /\ c - t < max /\ t >= 0 /\ t \in Int
      BY <1>1, <1>a, <2>1, <2>2, <3>1
    <3> QED BY <1>1, <2>1, <2>4, <3>2 DEF OnLine
  <2> QED BY <2>3, <2>4
<1>5. CASE ~SavedFits(n, max, c, s) /\ ~(c < max) /\ ~(c >= n - max \div 2)
  <2>1. t = c - max \div 2
    BY <1>5 DEF ScrollFor
  <2>2. t = c - half /\ c < n - half
    BY <1>a, <1>5, <2>1
  <2> QED BY <1>1, <1>a, <1>5, <2>2 DEF OnLine
<1> QED BY <1>2, <1>3, <1>4, <1>5

(* A menu that dialog_menu draws, from whatever choice and first item.     *)
LEMMA MenuDrawn ==
    ASSUME NEW h \in Heights, lines' = h, MenuRoom(h), open' = "menu",
           NEW n \in Nat, NEW sel \in -1 .. n - 1, NEW s \in Nat, NEW c \in Int, NEW f,
           OnLine(n, c),
           DrawMenu(n, sel, s, c, f)
    PROVE  ListInv'
<1>1. PICK room \in Nat : room = MenuHeight(h) /\ room > 0
  BY HeightsAssumption DEF MenuRoom, MenuHeight
<1>2. PICK at \in Int : at = (IF sel >= 0 THEN sel ELSE c)
  OBVIOUS
<1>3. OnLine(n, at)
  BY <1>2 DEF OnLine
<1>4. PICK max : max = AtMost(room, n)
  OBVIOUS
<1>5. PICK t : t = ScrollFor(n, max, at, s)
  OBVIOUS
<1>6. /\ items' = n /\ selected' = sel /\ max_choice' = max
      /\ scroll' = t /\ choice' = at - t
      /\ row' = [r \in 0 .. max - 1 |-> first_item' + r]
      /\ lit' = {at - t}
      /\ arrows' = <<t > 0, t + room < n>>
      /\ misdrawn' = (first_item' # t)
  BY <1>1, <1>2, <1>4, <1>5 DEF DrawMenu
<1>7. /\ max \in Nat /\ t \in Nat /\ t + max <= n
      /\ OnLine(max, at - t)
  BY <1>1, <1>3, <1>4, <1>5, ScrollForFits
<1>8. ListShape'
  BY <1>6, <1>7 DEF ListShape, Lines
<1>9. (t + room < n) = (t + max < n)
  BY <1>1, <1>4, <1>7 DEF AtMost
<1>10. ListShown'
  BY <1>6, <1>9 DEF ListShown, Lines
<1>11. max_choice' = AtMost(Room, items)'
  BY <1>1, <1>4, <1>6 DEF Room
<1> QED BY <1>8, <1>10, <1>11 DEF ListInv

(* dialog_menu opens, or there is no room for it.                          *)
LEMMA MenuOpened ==
    ASSUME lines' \in Heights, NEW n \in Nat, NEW sel \in -1 .. n - 1, NEW s \in Nat,
           OpenMenu(n, sel, s)
    PROVE  s_scroll' = s /\ Shown'
<1>0. s_scroll' = s
  BY DEF OpenMenu
<1>1. CASE MenuRoom(lines')
  <2>1. open' = "menu" /\ DrawMenu(n, sel, s, 0, 0)
    BY <1>1 DEF OpenMenu
  <2>2. OnLine(n, 0)
    BY DEF OnLine
  <2>3. PICK h \in Heights : lines' = h
    OBVIOUS
  <2>4. MenuRoom(h)
    BY <1>1, <2>3
  <2>5. ListInv'
    BY <2>1, <2>2, <2>3, <2>4, MenuDrawn
  <2> QED BY <1>0, <2>1, <2>5 DEF Shown, InputInv, TextInv
<1>2. CASE ~MenuRoom(lines')
  <2>1. open' \in {"yesno", "over"}
    BY <1>2 DEF OpenMenu, Ends
  <2> QED BY <1>0, <2>1 DEF Shown, ListInv, InputInv, TextInv
<1> QED BY <1>1, <1>2

(* A list that dialog_checklist draws, the highlight on one of its values. *)
LEMMA ListDrawn ==
    ASSUME lines' \in Heights, ListRoom(lines'), open' = "list",
           NEW n \in Nat, n > 0, NEW s \in Nat, NEW c \in 0 .. n - 1,
           s + AtMost(ListHeight, n) <= n,
           DrawList(n, s, c)
    PROVE  Shown'
<1>0. ListHeight \in Nat /\ ListHeight > 0
  BY ListHeightAssumption
<1>1. PICK max \in Nat : max = AtMost(ListHeight, n) /\ max > 0 /\ max <= n
  BY <1>0 DEF AtMost
<1>2. PICK k : k = (IF c >= ListHeight THEN c - ListHeight + 1 ELSE s)
  OBVIOUS
<1>3. PICK i : i = (IF c >= ListHeight THEN ListHeight - 1 ELSE c)
  OBVIOUS
<1>4. /\ items' = n /\ selected' = -1 /\ max_choice' = max /\ scroll' = k /\ choice' = i
      /\ row' = [r \in 0 .. max - 1 |-> k + r] /\ lit' = {i}
      /\ misdrawn' = (arrows' # <<k > 0, k + max < n>>)
  BY <1>1, <1>2, <1>3 DEF DrawList
<1>5. k \in Nat /\ k + max <= n /\ i \in 0 .. max - 1
  BY <1>0, <1>1, <1>2, <1>3 DEF AtMost
<1>6. ListShape'
  BY <1>1, <1>4, <1>5 DEF ListShape, OnLine
<1>7. ListShown'
  BY <1>4 DEF ListShown, Lines
<1>8. max_choice' = AtMost(Room, items)'
  BY <1>1, <1>4 DEF Room
<1>9. items' > 0
  BY <1>4
<1>10. ListInv'
  BY <1>6, <1>7, <1>8, <1>9 DEF ListInv
<1> QED BY <1>10 DEF Shown, InputInv, TextInv

(* A string that dialog_inputbox draws, from whatever offset.              *)
LEMMA InputDrawn ==
    ASSUME InputRoom(lines'), open' = "input",
           NEW n \in 0 .. MAX_LEN, NEW s \in Nat, NEW b,
           DrawInput(n, s, b)
    PROVE  Shown'
<1>0. Width \in Nat /\ Width >= 2 /\ MAX_LEN \in Nat
  BY WidthAssumption
<1>1. /\ strlen' = n
      /\ offset' = IF n >= Width THEN n - Width + 1 ELSE s
      /\ input_x' = IF n >= Width THEN Width - 1 ELSE n
      /\ astray' = (n < Width /\ s # 0)
  BY DEF DrawInput
<1>2. astray' \in BOOLEAN
  BY <1>1
<1>3. CASE n >= Width
  <2>1. offset' = n - Width + 1
    BY <1>1, <1>3
  <2>2. input_x' = Width - 1
    BY <1>1, <1>3
  <2>3. offset' \in Nat /\ input_x' \in 0 .. Width - 1
    BY <1>0, <1>3, <2>1, <2>2
  <2>4. Cursor' = n
    BY <1>0, <1>3, <2>1, <2>2 DEF Cursor
  <2> QED BY <1>0, <1>1, <1>2, <2>3, <2>4 DEF InputInv, Shown, ListInv, TextInv
<1>4. CASE n < Width
  <2>1. offset' = s
    BY <1>0, <1>1, <1>4
  <2>2. input_x' = n
    BY <1>0, <1>1, <1>4
  <2>3. (~astray') => s = 0
    BY <1>1, <1>4
  <2>4. Cursor' = s + n /\ input_x' \in 0 .. Width - 1
    BY <1>0, <1>4, <2>1, <2>2 DEF Cursor
  <2> QED BY <1>0, <1>1, <1>2, <2>1, <2>2, <2>3, <2>4 DEF InputInv, Shown, ListInv, TextInv
<1> QED BY <1>0, <1>3, <1>4

(* back_lines stops at the beginning of the text, and tells.               *)
LEMMA BackFits ==
    ASSUME NEW n \in Nat, NEW q \in 0 .. n + 1, NEW k \in Nat \ {0},
           NEW p, p = Back(q, k), begin_reached' = Begins(q, k)
    PROVE  /\ p \in 0 .. n /\ p = AtLeast(q - k, 0)
           /\ begin_reached' \in BOOLEAN /\ (begin_reached' <=> p = 0)
<1>1. p \in 0 .. n /\ p = AtLeast(q - k, 0) /\ (q <= k <=> p = 0)
  BY DEF Back, AtLeast
<1>2. begin_reached' = (q <= k)
  BY DEF Begins
<1>3. begin_reached' \in BOOLEAN
  BY <1>2
<1>4. begin_reached' <=> q <= k
  BY <1>2
<1> QED BY <1>1, <1>3, <1>4

(* A page of an ended text, printed from line p on, shows the text from    *)
(* there and is full unless the end of the text is reached.                *)
LEMMA PagePrinted ==
    ASSUME NEW n \in Nat, NEW p \in 0 .. n, NEW h \in Nat \ {0}, NEW f, Ended(f),
           length' = n, boxh' = h,
           begin_reached' \in BOOLEAN, begin_reached' <=> p = 0,
           page' = After(n, Ended(f), p, h),
           page_length' = Counted(n, Ended(f), p, h),
           screen' = [r \in Rows(h) |-> AtMost(p + r, n)]
    PROVE  TextShape' /\ TextTop' = p
<1>1. PICK q : q = (IF p + h <= n THEN p + h ELSE n + 1)
  OBVIOUS
<1>2. PICK k : k = AtMost(h, AtLeast(n + 1 - p, 1))
  OBVIOUS
<1>3. /\ q \in 0 .. n + 1 /\ k \in 1 .. h
      /\ q - k = p
      /\ q <= n => k = h
  BY <1>1, <1>2 DEF AtMost, AtLeast
<1>4. page' = q
  BY <1>1 DEF After
<1>5. page_length' = k
  BY <1>2 DEF Counted
<1>6. TextTop' = p
  BY <1>3, <1>4, <1>5 DEF TextTop
<1> QED BY <1>3, <1>4, <1>5, <1>6 DEF TextShape, Rows

(* Where a text that is opened has a window, its box has a line.           *)
LEMMA BoxFits ==
    ASSUME lines' \in Heights, TextRoom(lines'), NEW f \in {0, 5, 6}
    PROVE  BoxHeight(f) \in Nat \ {0}
<1>1. PICK h \in Heights : lines' = h
  OBVIOUS
<1>2. TextRoom(h)
  BY <1>1
<1>3. h - 8 \in Nat \ {0}
  BY <1>2, RoomForText
<1> QED BY <1>1, <1>3 DEF BoxHeight

(* A text that dialog_textbox opens.                                       *)
LEMMA TextOpened ==
    ASSUME lines' \in Heights, TextRoom(lines'), open' = "text",
           NEW n \in Nat \ {0}, NEW f \in {0, 5, 6},
           OpenText(n, f)
    PROVE  Shown'
<1>1. PICK h \in Nat \ {0} : h = BoxHeight(f)
  BY BoxFits
<1>2. /\ length' = n /\ fixed' = f /\ boxh' = h /\ begin_reached' = TRUE
      /\ page' = After(n, Ended(f), 0, h)
      /\ page_length' = Counted(n, Ended(f), 0, h)
      /\ screen' = [r \in Rows(h) |-> AtMost(0 + r, n)]
  BY <1>1 DEF OpenText, Page
<1>3. Ended(f) => TextShape'
  <2> SUFFICES ASSUME Ended(f) PROVE TextShape'
    OBVIOUS
  <2>1. n \in Nat /\ 0 \in 0 .. n
    OBVIOUS
  <2>2. begin_reached' \in BOOLEAN /\ (begin_reached' <=> 0 = 0)
    BY <1>2
  <2> QED BY <1>2, <2>1, <2>2, PagePrinted
<1>4. Ended(fixed)' => TextShape'
  BY <1>2, <1>3 DEF Ended
<1>5. TextInv'
  BY <1>2, <1>4 DEF TextInv
<1> QED BY <1>5 DEF Shown, ListInv, InputInv

(* What the keys of a text keep.                                           *)
LEMMA TextKept ==
    ASSUME IInv, TextKey, Ended(fixed) => TextShape'
    PROVE  Shown'
BY DEF IInv, CallInv, Shown, TextInv, TextKey, Ended, ListInv, InputInv

(* A page printed from line p on by a key.                                 *)
LEMMA TextMoved ==
    ASSUME IInv, TextKey, Ended(fixed), NEW p \in 0 .. length, TextFrom(p),
           begin_reached' \in BOOLEAN, begin_reached' <=> p = 0
    PROVE  TextShape' /\ TextTop' = p
<1>1. PICK n \in Nat : n = length
  BY DEF IInv, Shown, TextInv, TextKey
<1>2. PICK h \in Nat \ {0} : h = boxh
  BY DEF IInv, Shown, TextInv, TextKey
<1>3. /\ length' = n /\ boxh' = h
      /\ page' = After(n, Ended(fixed), p, h)
      /\ page_length' = Counted(n, Ended(fixed), p, h)
      /\ screen' = [r \in Rows(h) |-> AtMost(p + r, n)]
  BY <1>1, <1>2 DEF TextFrom, Page, TextKey
<1>4. p \in 0 .. n
  BY <1>1
<1> QED BY <1>3, <1>4, PagePrinted

(* A key of an ended text moves it as it should.                           *)
LEMMA TextStep ==
    ASSUME IInv, Ended(fixed)
    PROVE  /\ TextKeys => TextShape'
           /\ TextUp => TextTop' = TextTop - 1
           /\ TextDown => TextTop' = TextTop + 1
           /\ TextPageUp => TextTop' = AtLeast(TextTop - boxh, 0)
           /\ TextPageDown => TextTop' = TextTop + boxh
           /\ TextShift => TextTop' = TextTop
<1> SUFFICES ASSUME TextKey
             PROVE  /\ TextKeys => TextShape'
                    /\ TextUp => TextTop' = TextTop - 1
                    /\ TextDown => TextTop' = TextTop + 1
                    /\ TextPageUp => TextTop' = AtLeast(TextTop - boxh, 0)
                    /\ TextPageDown => TextTop' = TextTop + boxh
                    /\ TextShift => TextTop' = TextTop
  BY DEF TextKeys, TextHome, TextEnd, TextUp, TextPageUp, TextDown, TextPageDown, TextShift
<1>1. length \in Nat \ {0} /\ boxh \in Nat \ {0} /\ TextShape
  BY DEF IInv, Shown, TextInv, TextKey
<1>2. /\ page \in 0 .. length + 1 /\ page_length \in 1 .. boxh
      /\ page - page_length = TextTop /\ TextTop \in 0 .. length
      /\ begin_reached \in BOOLEAN /\ (begin_reached <=> TextTop = 0)
      /\ page <= length => page_length = boxh
      /\ screen = [r \in Rows(boxh) |-> AtMost(TextTop + r, length)]
  BY <1>1 DEF TextShape, TextTop
<1>3. ASSUME TextHome PROVE TextShape'
  <2>1. begin_reached' \in BOOLEAN /\ (begin_reached' <=> 0 = 0) /\ TextFrom(0)
    BY <1>3 DEF TextHome
  <2>2. 0 \in 0 .. length
    BY <1>1
  <2> QED BY <2>1, <2>2, TextMoved
<1>4. ASSUME TextEnd PROVE TextShape'
  <2>1. PICK p : p = Back(length + 1, boxh)
    OBVIOUS
  <2>2. begin_reached' = Begins(length + 1, boxh) /\ TextFrom(p)
    BY <2>1, <1>4 DEF TextEnd
  <2>3. length + 1 \in 0 .. length + 1
    BY <1>1
  <2>4. p \in 0 .. length /\ begin_reached' \in BOOLEAN /\ (begin_reached' <=> p = 0)
    BY <1>1, <2>1, <2>2, <2>3, BackFits
  <2> QED BY <2>2, <2>4, TextMoved
<1>5. ASSUME TextPageUp PROVE TextShape' /\ TextTop' = AtLeast(TextTop - boxh, 0)
  <2>1. PICK p : p = Back(page, page_length + boxh)
    OBVIOUS
  <2>2. begin_reached' = Begins(page, page_length + boxh) /\ TextFrom(p)
    BY <2>1, <1>5 DEF TextPageUp
  <2>3. page_length + boxh \in Nat \ {0} /\ page - (page_length + boxh) = TextTop - boxh
    BY <1>1, <1>2
  <2>4. /\ p \in 0 .. length /\ begin_reached' \in BOOLEAN /\ (begin_reached' <=> p = 0)
        /\ p = AtLeast(page - (page_length + boxh), 0)
    BY <1>1, <1>2, <2>1, <2>2, <2>3, BackFits
  <2> QED BY <2>2, <2>3, <2>4, TextMoved
<1>6. ASSUME TextPageDown PROVE TextShape' /\ TextTop' = TextTop + boxh
  <2>1. PICK p \in 0 .. length : p = page /\ p # 0 /\ p = TextTop + boxh
    BY <1>1, <1>2, <1>6 DEF TextPageDown, end_reached
  <2>2. begin_reached' \in BOOLEAN /\ (begin_reached' <=> p = 0) /\ TextFrom(p)
    BY <2>1, <1>6 DEF TextPageDown
  <2> QED BY <2>1, <2>2, TextMoved
<1>7. ASSUME TextShift PROVE TextShape' /\ TextTop' = TextTop
  <2>1. PICK p : p = Back(page, page_length)
    OBVIOUS
  <2>2. begin_reached' = Begins(page, page_length) /\ TextFrom(p)
    BY <2>1, <1>7 DEF TextShift
  <2>3. page_length \in Nat \ {0} /\ AtLeast(page - page_length, 0) = TextTop
    BY <1>1, <1>2 DEF AtLeast
  <2>4. /\ p \in 0 .. length /\ begin_reached' \in BOOLEAN /\ (begin_reached' <=> p = 0)
        /\ p = AtLeast(page - page_length, 0)
    BY <1>1, <1>2, <2>1, <2>2, <2>3, BackFits
  <2> QED BY <2>2, <2>3, <2>4, TextMoved
<1>8. ASSUME TextUp PROVE TextShape' /\ TextTop' = TextTop - 1
  <2>0. PICK p : p = Back(page, page_length + 1)
    OBVIOUS
  <2>5. begin_reached' = Begins(page, page_length + 1)
    BY <1>8 DEF TextUp
  <2>6. page_length + 1 \in Nat \ {0} /\ AtLeast(page - (page_length + 1), 0) = TextTop - 1
    BY <1>1, <1>2, <1>8 DEF AtLeast, TextUp
  <2>7. /\ p \in 0 .. length /\ begin_reached' \in BOOLEAN /\ (begin_reached' <=> p = 0)
        /\ p = AtLeast(page - (page_length + 1), 0)
    BY <1>1, <1>2, <2>0, <2>5, <2>6, BackFits
  <2>1. p \in 0 .. length /\ p = TextTop - 1
    BY <2>6, <2>7
  <2>2. /\ length' = length /\ boxh' = boxh
        /\ page' = After(length, Ended(fixed), p, boxh)
        /\ page_length' = Counted(length, Ended(fixed), p, boxh)
        /\ screen' = [r \in Rows(boxh) |-> IF r = 0 THEN AtMost(p, length) ELSE screen[r - 1]]
    BY <2>0, <1>8 DEF TextUp, TextKey
  <2>3. ASSUME NEW r \in Rows(boxh)
        PROVE  (IF r = 0 THEN AtMost(p, length) ELSE screen[r - 1]) = AtMost(p + r, length)
    <3>1. CASE r = 0
      <4>1. p + r = p
        BY <2>1, <3>1
      <4> QED BY <3>1, <4>1
    <3>2. CASE r # 0
      <4>1. r - 1 \in Rows(boxh) /\ TextTop + (r - 1) = p + r
        BY <1>1, <1>2, <2>1, <3>2 DEF Rows
      <4> QED BY <1>2, <3>2, <4>1
    <3> QED BY <3>1, <3>2
  <2>4. screen' = [r \in Rows(boxh) |-> AtMost(p + r, length)]
    BY <2>2, <2>3
  <2> QED BY <1>1, <2>1, <2>7, <2>2, <2>4, PagePrinted
<1>9. ASSUME TextDown PROVE TextShape' /\ TextTop' = TextTop + 1
  <2>1. PICK p \in 0 .. length : p = TextTop + 1
    BY <1>1, <1>2, <1>9 DEF TextDown, end_reached
  <2>2. /\ page_length = boxh /\ page = p + boxh - 1 /\ page <= length
    BY <1>1, <1>2, <1>9, <2>1 DEF TextDown, end_reached
  <2>3. ASSUME NEW r \in Rows(boxh)
        PROVE  (IF r = boxh - 1 THEN AtMost(page, length) ELSE screen[r + 1]) = AtMost(p + r, length)
    <3>1. CASE r = boxh - 1
      <4>1. p + r = page
        BY <1>1, <2>1, <2>2, <3>1
      <4> QED BY <3>1, <4>1
    <3>2. CASE r # boxh - 1
      <4>1. r + 1 \in Rows(boxh) /\ TextTop + (r + 1) = p + r
        BY <1>1, <1>2, <2>1, <3>2 DEF Rows
      <4> QED BY <1>2, <3>2, <4>1
    <3> QED BY <3>1, <3>2
  <2>4. /\ length' = length /\ boxh' = boxh /\ begin_reached' = FALSE
        /\ page' = page + 1 /\ page_length' = boxh
        /\ screen' = [r \in Rows(boxh) |-> AtMost(p + r, length)]
    BY <1>1, <1>2, <1>9, <2>2, <2>3 DEF TextDown, TextKey, After
  <2>5. TextTop' = p
    BY <1>1, <2>1, <2>2, <2>4 DEF TextTop
  <2>6. p # 0 /\ page + 1 \in 0 .. length + 1 /\ (page + 1 <= length => boxh = boxh)
    BY <1>1, <1>2, <2>1, <2>2
  <2> QED BY <1>1, <2>1, <2>2, <2>4, <2>5, <2>6 DEF TextShape
<1>10. TextKeys => TextShape'
  BY <1>3, <1>4, <1>5, <1>6, <1>7, <1>8, <1>9 DEF TextKeys
<1> QED BY <1>5, <1>6, <1>7, <1>8, <1>9, <1>10
-----------------------------------------------------------------------------
(* A key of the field keeps the string, and changes its end as it should.  *)
LEMMA InputStep ==
    ASSUME IInv, InputKeys
    PROVE  /\ InputInv'
           /\ ~astray => /\ Type => strlen' = strlen + 1
                         /\ Backspace => strlen' = strlen - 1
                         /\ BackspaceScroll => strlen' = strlen
<1>0. Width \in Nat /\ Width >= 2 /\ MAX_LEN \in Nat
  BY WidthAssumption
<1>1. /\ open = "input" /\ open' = "input" /\ lines' = lines /\ astray' = astray
      /\ InputRoom(lines)
      /\ strlen \in 0 .. MAX_LEN /\ offset \in Nat /\ input_x \in Int /\ astray \in BOOLEAN
      /\ Cursor >= 0 /\ Cursor = offset + input_x
      /\ ~astray => input_x \in 0 .. Width - 1 /\ Cursor = strlen
  BY DEF IInv, Shown, InputInv, Cursor, InputKeys, BackspaceScroll, Backspace, Type, NextButton, InField
<1>2. ASSUME Type PROVE InputInv' /\ (~astray => strlen' = strlen + 1)
  <2>1. PICK n \in 0 .. MAX_LEN : /\ n = (IF Cursor <= strlen THEN Cursor + 1 ELSE strlen)
                                  /\ ~astray => n = strlen + 1
    BY <1>1, <1>2, <1>0 DEF Type
  <2>2. strlen' = n
    BY <2>1, <1>2 DEF Type
  <2>3. CASE input_x = Width - 1
    <3>1. offset' = offset + 1 /\ input_x' = input_x
      BY <1>2, <2>3 DEF Type
    <3>2. Cursor' = Cursor + 1
      BY <1>1, <3>1 DEF Cursor
    <3> QED BY <1>0, <1>1, <2>1, <2>2, <3>1, <3>2 DEF InputInv
  <2>4. CASE input_x # Width - 1
    <3>1. input_x' = input_x + 1 /\ offset' = offset
      BY <1>2, <2>4 DEF Type
    <3>2. Cursor' = Cursor + 1
      BY <1>1, <3>1 DEF Cursor
    <3> QED BY <1>0, <1>1, <2>1, <2>2, <2>4, <3>1, <3>2 DEF InputInv
  <2> QED BY <2>3, <2>4
<1>3. ASSUME Backspace PROVE InputInv' /\ (~astray => strlen' = strlen - 1)
  <2>1. input_x # 0 /\ (astray => Cursor > 0) /\ input_x' = input_x - 1 /\ offset' = offset
    BY <1>3 DEF Backspace
  <2>2. Cursor > 0
    BY <1>1, <2>1
  <2>3. Cursor' = Cursor - 1
    BY <1>1, <2>1 DEF Cursor
  <2>4. PICK n \in 0 .. MAX_LEN : n = Cut(Cursor - 1) /\ (~astray => n = strlen - 1)
    BY <1>0, <1>1, <2>2 DEF Cut, AtMost
  <2>5. strlen' = n
    BY <2>4, <1>3 DEF Backspace
  <2> QED BY <1>0, <1>1, <2>1, <2>2, <2>3, <2>4, <2>5 DEF InputInv
<1>4. ASSUME BackspaceScroll PROVE InputInv' /\ (~astray => strlen' = strlen)
  <2>0. PICK s : s = (IF offset < Width - 1 THEN 0 ELSE offset - (Width - 1))
    OBVIOUS
  <2>1. s \in Nat /\ (offset < Width - 1 => s = 0) /\ (offset >= Width - 1 => s = offset - (Width - 1))
    BY <1>0, <1>1, <2>0
  <2>2. offset' = s /\ input_x' = strlen - s /\ input_x = 0 /\ offset # 0
    BY <2>0, <1>4 DEF BackspaceScroll
  <2>3. Cursor' = strlen
    BY <1>1, <2>1, <2>2 DEF Cursor
  <2>4. strlen' = Cut(offset' + input_x')
    BY <1>4 DEF BackspaceScroll
  <2>5. strlen' = Cut(strlen)
    BY <2>3, <2>4 DEF Cursor
  <2>6. strlen' = strlen
    BY <1>1, <2>5 DEF Cut, AtMost
  <2>7. ~astray => strlen - s \in 0 .. Width - 1
    BY <1>0, <1>1, <2>1, <2>2
  <2> QED BY <1>0, <1>1, <2>1, <2>2, <2>3, <2>6, <2>7 DEF InputInv
<1>5. ASSUME NextButton PROVE InputInv'
  BY <1>1, <1>5 DEF NextButton, InputInv, Cursor
<1> QED BY <1>2, <1>3, <1>4, <1>5 DEF InputKeys
-----------------------------------------------------------------------------
(* A list that a key moved shows what it holds if it did before and its    *)
(* indicators are set anew.                                                *)
LEMMA ListMoved ==
    ASSUME IInv, open \in {"menu", "list"}, open' = open, lines' = lines,
           NEW k \in Int, NEW c \in Int, Move(k, c),
           scroll + k \in Nat, scroll + k + max_choice <= items, OnLine(max_choice, c),
           ~misdrawn => arrows' = <<scroll + k > 0, scroll + k + max_choice < items>>
    PROVE  ListInv' /\ At' = scroll + k + c
<1>1. /\ IF open = "menu" THEN MenuRoom(lines) ELSE ListRoom(lines) /\ items > 0
      /\ max_choice = AtMost(Room, items)
      /\ ListShape /\ ListShown
  BY DEF IInv, Shown, ListInv
<1>2. /\ items' = items /\ max_choice' = max_choice /\ selected' = selected /\ misdrawn' = misdrawn
      /\ scroll' = scroll + k /\ choice' = c
      /\ row' = Printed(k, c) /\ lit' = Highlighted(k, c)
  BY DEF Move
<1>3. lit' = {c}
  <2>1. lit \ {choice} = {}
    BY <1>1 DEF ListShape
  <2> QED BY <1>2, <2>1 DEF Highlighted
<1>4. ListShape'
  BY <1>1, <1>2, <1>3 DEF ListShape
<1>5. ~misdrawn => row' = [r \in Lines |-> scroll + k + r]
  <2> SUFFICES ASSUME ~misdrawn PROVE Printed(k, c) = [r \in Lines |-> scroll + k + r]
    BY <1>2
  <2>1. row = [r \in Lines |-> scroll + r]
    BY <1>1 DEF ListShown
  <2>2. ASSUME NEW r \in Lines, r + k \in Lines \ {choice}
        PROVE  row[r + k] = scroll + k + r
    <3>1. scroll \in Int /\ r \in Int
      BY <1>1 DEF ListShape, Lines
    <3> QED BY <2>1, <2>2, <3>1
  <2> QED BY <2>2 DEF Printed
<1>6. ListShown'
  BY <1>2, <1>5 DEF ListShown, Lines
<1>7. Room' = Room
  BY DEF Room
<1>8. At' = scroll + k + c
  BY <1>2 DEF At
<1> QED BY <1>1, <1>2, <1>4, <1>6, <1>7, <1>8 DEF ListInv

(* A key of dialog_menu: the indicators tell what is above and below.      *)
LEMMA MenuMoved ==
    ASSUME IInv, NEW k \in Int, NEW c \in Int, MenuKey(k, c),
           scroll + k \in Nat, scroll + k + max_choice <= items, OnLine(max_choice, c)
    PROVE  ListInv' /\ At' = scroll + k + c
<1>1. /\ open = "menu" /\ open' = open /\ lines' = lines /\ Move(k, c)
      /\ arrows' = MenuArrows(scroll + k, lines)
  BY DEF MenuKey
<1>2. /\ MenuRoom(lines) /\ lines \in Heights
      /\ max_choice = AtMost(MenuHeight(lines), items)
      /\ items \in Nat /\ max_choice \in Nat
  BY <1>1 DEF IInv, CallInv, Shown, ListInv, ListShape, Room
<1>3. MenuHeight(lines) \in Nat
  BY <1>2, HeightsAssumption DEF MenuRoom, MenuHeight
<1>4. (scroll + k + MenuHeight(lines) < items) = (scroll + k + max_choice < items)
  BY <1>2, <1>3 DEF AtMost
<1>5. arrows' = <<scroll + k > 0, scroll + k + max_choice < items>>
  BY <1>1, <1>4 DEF MenuArrows
<1> QED BY <1>1, <1>5, ListMoved

(* A key of a list keeps it, and moves the highlight as it should.         *)
LEMMA ListStep ==
    ASSUME IInv, ListKeys
    PROVE  /\ ListInv'
           /\ items > 0 =>
                /\ MenuUp \/ ListUp => At' = AtLeast(At - 1, 0)
                /\ MenuDown \/ ListDown => At' = AtMost(At + 1, items - 1)
                /\ MenuPageUp => At' = AtLeast(At - max_choice, 0)
                /\ MenuPageDown => At' = AtMost(At + max_choice, items - 1)
<1>0. ListHeight \in Nat /\ ListHeight > 0
  BY ListHeightAssumption
<1>1. /\ open \in {"menu", "list"} /\ open' = open /\ lines' = lines
      /\ items \in Nat /\ max_choice \in Nat /\ scroll \in Nat /\ choice \in Int
      /\ scroll + max_choice <= items
      /\ At = scroll + choice
      /\ OnLine(max_choice, choice)
      /\ ListShown
  BY DEF IInv, Shown, ListInv, ListShape, At, ListKeys, MenuUp, MenuDown, MenuPageUp, MenuPageDown,
         MenuLetter, MenuKey, ListUp, ListDown, ListLetter, ListMove, ListScroll
<1>2. open = "list" => items > 0 /\ max_choice = AtMost(ListHeight, items)
  BY DEF IInv, Shown, ListInv, Room
<1>3. open = "menu" => max_choice = AtMost(MenuHeight(lines), items) /\ MenuHeight(lines) \in Nat \ {0}
  BY HeightsAssumption DEF IInv, CallInv, Shown, ListInv, Room, MenuRoom, MenuHeight
<1>4. max_choice <= items /\ (items > 0 => max_choice > 0)
  BY <1>0, <1>1, <1>2, <1>3 DEF AtMost
<1>5. ASSUME MenuUp PROVE ListInv' /\ (items > 0 => At' = AtLeast(At - 1, 0))
  <2>1. CASE choice < 2 /\ scroll # 0
    <3>1. MenuKey(-1, choice)
      BY <1>5, <2>1 DEF MenuUp
    <3>2. scroll + (-1) \in Nat /\ scroll + (-1) + max_choice <= items
      BY <1>1, <2>1
    <3>3. ListInv' /\ At' = scroll + (-1) + choice
      BY <1>1, <3>1, <3>2, MenuMoved
    <3> QED BY <1>1, <1>4, <2>1, <3>3 DEF OnLine, AtLeast
  <2>2. CASE ~(choice < 2 /\ scroll # 0)
    <3>1. PICK c \in Int : c = AtLeast(choice - 1, 0)
      BY <1>1 DEF AtLeast
    <3>2. MenuKey(0, c) /\ OnLine(max_choice, c) /\ scroll + 0 = scroll
      BY <1>1, <1>5, <2>2, <3>1 DEF MenuUp, OnLine, AtLeast
    <3>3. ListInv' /\ At' = scroll + 0 + c
      BY <1>1, <3>2, MenuMoved
    <3> QED BY <1>1, <1>4, <2>2, <3>1, <3>3 DEF OnLine, AtLeast
  <2> QED BY <2>1, <2>2
<1>6. ASSUME MenuDown PROVE ListInv' /\ (items > 0 => At' = AtMost(At + 1, items - 1))
  <2>1. CASE choice > max_choice - 3 /\ scroll + max_choice < items
    <3>1. MenuKey(1, choice)
      BY <1>6, <2>1 DEF MenuDown
    <3>2. scroll + 1 \in Nat /\ scroll + 1 + max_choice <= items
      BY <1>1, <2>1
    <3>3. ListInv' /\ At' = scroll + 1 + choice
      BY <1>1, <3>1, <3>2, MenuMoved
    <3> QED BY <1>1, <1>4, <2>1, <3>3 DEF OnLine, AtMost
  <2>2. CASE ~(choice > max_choice - 3 /\ scroll + max_choice < items)
    <3>1. PICK c \in Int : c = AtMost(choice + 1, max_choice - 1)
      BY <1>1 DEF AtMost
    <3>2. MenuKey(0, c) /\ OnLine(max_choice, c) /\ scroll + 0 = scroll
      BY <1>1, <1>6, <2>2, <3>1 DEF MenuDown, OnLine, AtMost
    <3>3. ListInv' /\ At' = scroll + 0 + c
      BY <1>1, <3>2, MenuMoved
    <3> QED BY <1>1, <1>4, <2>2, <3>1, <3>3 DEF OnLine, AtMost
  <2> QED BY <2>1, <2>2
<1>7. ASSUME MenuPageUp PROVE ListInv' /\ (items > 0 => At' = AtLeast(At - max_choice, 0))
  <2>1. PICK k \in Int : k = AtMost(max_choice, scroll)
    BY <1>1 DEF AtMost
  <2>2. PICK c \in Int : c = AtLeast(choice - (max_choice - k), 0)
    BY <1>1 DEF AtLeast
  <2>3. max_choice > 0 /\ MenuKey(-k, c)
    BY <1>7, <2>1, <2>2 DEF MenuPageUp
  <2>4. scroll + (-k) \in Nat /\ scroll + (-k) + max_choice <= items /\ OnLine(max_choice, c)
    BY <1>1, <2>1, <2>2, <2>3 DEF OnLine, AtMost, AtLeast
  <2>5. ListInv' /\ At' = scroll + (-k) + c
    BY <2>3, <2>4, MenuMoved
  <2> QED BY <1>1, <2>1, <2>2, <2>3, <2>5 DEF OnLine, AtMost, AtLeast
<1>8. ASSUME MenuPageDown PROVE ListInv' /\ (items > 0 => At' = AtMost(At + max_choice, items - 1))
  <2>0. AtMost(max_choice, items - (scroll + max_choice)) \in Int
    BY <1>1 DEF AtMost
  <2>1. PICK k \in Int : k = AtMost(max_choice, items - (scroll + max_choice))
    BY <2>0
  <2>2. PICK c \in Int : c = AtMost(choice + (max_choice - k), max_choice - 1)
    BY <1>1 DEF AtMost
  <2>3. max_choice > 0 /\ MenuKey(k, c)
    BY <1>8, <2>1, <2>2 DEF MenuPageDown
  <2>4. scroll + k \in Nat /\ scroll + k + max_choice <= items /\ OnLine(max_choice, c)
    BY <1>1, <2>1, <2>2, <2>3 DEF OnLine, AtMost
  <2>5. ListInv' /\ At' = scroll + k + c
    BY <2>3, <2>4, MenuMoved
  <2> QED BY <1>1, <2>1, <2>2, <2>3, <2>5 DEF OnLine, AtMost
<1>9. ASSUME NEW i \in Lines, MenuKey(0, i) PROVE ListInv'
  <2>1. i \in Int /\ scroll + 0 \in Nat /\ scroll + 0 + max_choice <= items /\ OnLine(max_choice, i)
    BY <1>1 DEF Lines, OnLine
  <2> QED BY <1>9, <2>1, MenuMoved
<1>10. ASSUME NEW i \in Lines, ListMove(i) PROVE ListInv' /\ At' = scroll + i
  <2>1. i \in Int /\ scroll + 0 = scroll /\ OnLine(max_choice, i)
    BY <1>1 DEF Lines, OnLine
  <2>2. Move(0, i) /\ open' = open /\ lines' = lines
        /\ (~misdrawn => arrows' = <<scroll > 0, scroll + max_choice < items>>)
    BY <1>1, <1>10 DEF ListMove, ListShown
  <2> QED BY <1>1, <2>1, <2>2, ListMoved
<1>11. ASSUME ListUp PROVE ListInv' /\ At' = AtLeast(At - 1, 0)
  <2>0. open = "list" /\ items > 0 /\ max_choice = AtMost(ListHeight, items) /\ choice \in Lines
    BY <1>1, <1>2, <1>4, <1>11 DEF ListUp, ListScroll, ListMove, OnLine, Lines
  <2>1. CASE choice = 0
    <3>1. scroll # 0 /\ Move(-1, choice) /\ arrows' = ListArrows(items, scroll + (-1), choice)
      BY <1>11, <2>1 DEF ListUp, ListScroll
    <3>2. scroll + (-1) \in Nat /\ scroll + (-1) + max_choice <= items
      BY <1>1, <3>1
    <3>3. ListHeight < items /\ scroll + (-1) + choice < items - 1 /\ scroll + (-1) + max_choice < items
      BY <1>0, <1>1, <1>4, <2>0, <2>1, <3>1 DEF AtMost
    <3>4. arrows' = <<scroll + (-1) > 0, scroll + (-1) + max_choice < items>>
      BY <3>1, <3>3 DEF ListArrows
    <3>5. ListInv' /\ At' = scroll + (-1) + choice
      BY <1>1, <3>1, <3>2, <3>4, ListMoved
    <3> QED BY <1>1, <2>1, <3>1, <3>5 DEF AtLeast
  <2>2. CASE choice # 0
    <3>1. ListMove(choice - 1) /\ choice - 1 \in Lines
      BY <1>1, <1>11, <2>0, <2>2 DEF ListUp, Lines
    <3>2. ListInv' /\ At' = scroll + (choice - 1)
      BY <3>1, <1>10
    <3> QED BY <1>1, <2>0, <2>2, <3>2 DEF AtLeast, Lines
  <2> QED BY <2>1, <2>2
<1>12. ASSUME ListDown PROVE ListInv' /\ At' = AtMost(At + 1, items - 1)
  <2>0. open = "list" /\ items > 0 /\ max_choice = AtMost(ListHeight, items) /\ choice \in Lines
    BY <1>1, <1>2, <1>4, <1>12 DEF ListDown, ListScroll, ListMove, OnLine, Lines
  <2>1. CASE choice = max_choice - 1
    <3>1. scroll + choice < items - 1 /\ Move(1, choice) /\ arrows' = ListArrows(items, scroll + 1, choice)
      BY <1>12, <2>1 DEF ListDown, ListScroll
    <3>2. scroll + 1 \in Nat /\ scroll + 1 + max_choice <= items
      BY <1>1, <2>1, <3>1
    <3>3. ListHeight < items /\ (scroll + 1 + choice < items - 1) = (scroll + 1 + max_choice < items)
      BY <1>0, <1>1, <1>4, <2>0, <2>1, <3>1 DEF AtMost
    <3>4. arrows' = <<scroll + 1 > 0, scroll + 1 + max_choice < items>>
      BY <3>1, <3>3 DEF ListArrows
    <3>5. ListInv' /\ At' = scroll + 1 + choice
      BY <1>1, <3>1, <3>2, <3>4, ListMoved
    <3> QED BY <1>1, <2>1, <3>1, <3>5 DEF AtMost
  <2>2. CASE choice # max_choice - 1
    <3>1. ListMove(choice + 1) /\ choice + 1 \in Lines
      BY <1>1, <1>12, <2>0, <2>2 DEF ListDown, Lines
    <3>2. ListInv' /\ At' = scroll + (choice + 1)
      BY <3>1, <1>10
    <3> QED BY <1>1, <2>0, <2>2, <3>2 DEF AtMost, Lines
  <2> QED BY <2>1, <2>2
<1>13. MenuLetter => ListInv'
  BY <1>9 DEF MenuLetter
<1>14. ListLetter => ListInv'
  BY <1>10 DEF ListLetter
<1> QED BY <1>5, <1>6, <1>7, <1>8, <1>11, <1>12, <1>13, <1>14 DEF ListKeys
-----------------------------------------------------------------------------
(* The call of conf() goes round, with whatever was scrolled to.           *)
LEMMA AgainKeeps ==
    ASSUME CallInv, NEW s \in Nat, MenuAgain(s)
    PROVE  IInv'
<1>1. lines' \in Heights /\ outer' \in Seq(Nat)
  BY DEF MenuAgain, CallInv
<1>2. PICK n \in Counts : \E sel \in -1 .. n - 1 : OpenMenu(n, sel, s)
  BY DEF MenuAgain
<1>3. PICK sel \in -1 .. n - 1 : OpenMenu(n, sel, s)
  BY <1>2
<1>4. n \in Nat
  BY WindowsAssumption
<1>5. s_scroll' = s /\ Shown'
  BY <1>1, <1>3, <1>4, MenuOpened
<1> QED BY <1>1, <1>5 DEF IInv, CallInv

(* Another call of conf() shows its menu from the first line on.           *)
LEMMA FirstKeeps ==
    ASSUME CallInv, NEW o \in Seq(Nat), FirstMenu(o)
    PROVE  IInv'
<1>1. lines' \in Heights /\ outer' \in Seq(Nat)
  BY DEF FirstMenu, CallInv
<1>2. PICK n \in Counts : OpenMenu(n, -1, 0)
  BY DEF FirstMenu
<1>3. n \in Nat /\ -1 \in -1 .. n - 1
  BY WindowsAssumption
<1>4. s_scroll' = 0 /\ Shown'
  BY <1>1, <1>2, <1>3, MenuOpened
<1> QED BY <1>1, <1>4 DEF IInv, CallInv

(* With no window there is nothing to show.                                *)
LEMMA NothingShown ==
    ASSUME open' \notin {"menu", "list", "input", "text"}
    PROVE  Shown'
BY DEF Shown, ListInv, InputInv, TextInv

(* A string that is given to dialog_inputbox.                              *)
LEMMA InputShown ==
    ASSUME InputRoom(lines'), NEW n \in Lengths \cup {0}, ShowInput(n)
    PROVE  Shown'
<1>1. n \in 0 .. MAX_LEN /\ 0 \in Nat
  BY WindowsAssumption, WidthAssumption
<1>2. open' = "input" /\ DrawInput(n, 0, -1)
  BY DEF ShowInput
<1> QED BY <1>1, <1>2, InputDrawn

(* A list that is given to dialog_checklist.                               *)
LEMMA ListShownNew ==
    ASSUME lines' \in Heights, ListRoom(lines'),
           NEW n \in Counts \ {0}, NEW c \in 0 .. n - 1, ShowList(n, c)
    PROVE  Shown'
<1>1. n \in Nat /\ n > 0
  BY WindowsAssumption
<1>2. 0 + AtMost(ListHeight, n) <= n
  BY <1>1, ListHeightAssumption DEF AtMost
<1>3. open' = "list" /\ DrawList(n, 0, c)
  BY DEF ShowList
<1> QED BY <1>1, <1>2, <1>3, ListDrawn

(* A text that is given to dialog_textbox.                                 *)
LEMMA TextShown ==
    ASSUME lines' \in Heights, TextRoom(lines'), NEW n \in Nat \ {0}, NEW f \in {0, 5, 6},
           ShowText(n, f)
    PROVE  Shown'
<1>1. open' = "text" /\ OpenText(n, f)
  BY DEF ShowText
<1> QED BY <1>1, TextOpened

(* Every window the terminal has room for has room for a text.             *)
LEMMA TextHasRoom ==
    ASSUME IInv, open \in {"menu", "list", "input"}
    PROVE  TextRoom(lines)
<1>1. lines \in Nat \ {8, 9} /\ (MenuRoom(lines) \/ ListRoom(lines) \/ InputRoom(lines))
  BY HeightsAssumption DEF IInv, CallInv, Shown, ListInv, InputInv
<1> QED BY <1>1, ListHeightAssumption DEF MenuRoom, ListRoom, InputRoom, TextRoom

(* A key keeps what is shown.                                              *)
LEMMA KeysKeep ==
    ASSUME IInv,
           \/ ListKeys /\ UNCHANGED <<inputvars, textvars, callvars>>
           \/ InputKeys /\ UNCHANGED <<listvars, textvars, callvars>>
           \/ TextKeys /\ UNCHANGED <<listvars, inputvars, callvars>>
    PROVE  IInv'
<1>1. CASE ListKeys /\ UNCHANGED <<inputvars, textvars, callvars>>
  <2>1. ListInv'
    BY <1>1, ListStep
  <2>2. open \in {"menu", "list"} /\ open' = open /\ lines' = lines
    BY <1>1 DEF ListKeys, MenuUp, MenuDown, MenuPageUp, MenuPageDown, MenuLetter, MenuKey,
                ListUp, ListDown, ListLetter, ListMove, ListScroll
  <2> QED BY <1>1, <2>1, <2>2 DEF IInv, CallInv, callvars, Shown, InputInv, TextInv
<1>2. CASE InputKeys /\ UNCHANGED <<listvars, textvars, callvars>>
  <2>1. InputInv'
    BY <1>2, InputStep
  <2>2. open = "input" /\ open' = open /\ lines' = lines
    BY <1>2 DEF InputKeys, BackspaceScroll, Backspace, Type, NextButton, InField
  <2> QED BY <1>2, <2>1, <2>2 DEF IInv, CallInv, callvars, Shown, ListInv, TextInv
<1>3. CASE TextKeys /\ UNCHANGED <<listvars, inputvars, callvars>>
  <2>1. TextKey
    BY <1>3 DEF TextKeys, TextHome, TextEnd, TextUp, TextPageUp, TextDown, TextPageDown, TextShift
  <2>2. Ended(fixed) => TextShape'
    BY <1>3, TextStep
  <2>3. Shown' /\ lines' = lines
    BY <2>1, <2>2, TextKept DEF TextKey
  <2> QED BY <1>3, <2>3 DEF IInv, CallInv, callvars
<1> QED BY <1>1, <1>2, <1>3

(* Opening and leaving windows keeps what is shown.                        *)
LEMMA CallsKeep ==
    ASSUME IInv,
           Start \/ Set \/ Submenu \/ Leave \/ Choose \/ EnterString \/ Help \/ Tell
             \/ Return \/ TextDone \/ Answer
    PROVE  IInv'
<1>1. CallInv /\ lines \in Heights /\ s_scroll \in Nat /\ outer \in Seq(Nat)
  BY DEF IInv, CallInv
<1>2. open = "menu" => scroll \in Nat /\ MenuRoom(lines)
  BY DEF IInv, Shown, ListInv, ListShape
<1>3. CASE Start
  <2>1. FirstMenu(<<>>) /\ <<>> \in Seq(Nat)
    BY <1>3 DEF Start
  <2> QED BY <1>1, <2>1, FirstKeeps
<1>4. CASE Set
  BY <1>1, <1>2, <1>4, AgainKeeps DEF Set
<1>5. CASE Submenu
  <2>1. FirstMenu(Append(outer, scroll)) /\ Append(outer, scroll) \in Seq(Nat)
    BY <1>1, <1>2, <1>5 DEF Submenu
  <2> QED BY <1>1, <2>1, FirstKeeps
<1>6. CASE Leave
  <2>1. CASE outer = <<>>
    <3>1. Ends /\ UNCHANGED <<lines, s_scroll, outer>>
      BY <1>6, <2>1 DEF Leave
    <3>2. Shown'
      BY <3>1, NothingShown DEF Ends
    <3> QED BY <1>1, <3>1, <3>2 DEF IInv, CallInv
  <2>2. CASE outer # <<>>
    <3>1. PICK s \in Nat : s = outer[Len(outer)]
      BY <1>1, <2>2
    <3>2. outer' = SubSeq(outer, 1, Len(outer) - 1) /\ lines' = lines
      BY <1>6, <2>2 DEF Leave
    <3>3. outer' \in Seq(Nat)
      BY <1>1, <2>2, <3>2
    <3>4. PICK n \in Counts : \E sel \in -1 .. n - 1 : OpenMenu(n, sel, s)
      BY <1>6, <2>2, <3>1 DEF Leave
    <3>5. PICK sel \in -1 .. n - 1 : OpenMenu(n, sel, s)
      BY <3>4
    <3>6. n \in Nat /\ lines' \in Heights
      BY <1>1, <3>2, WindowsAssumption
    <3>7. s_scroll' = s /\ Shown'
      BY <3>5, <3>6, MenuOpened
    <3> QED BY <3>3, <3>6, <3>7 DEF IInv, CallInv
  <2> QED BY <2>1, <2>2
<1>7. CASE Choose
  <2>1. /\ s_scroll' = scroll /\ lines' = lines /\ outer' = outer /\ open = "menu" /\ ListRoom(lines)
        /\ \E n \in Counts \ {0} : \E c \in 0 .. n - 1 : ShowList(n, c)
    BY <1>7 DEF Choose, Saved
  <2>2. lines' \in Heights /\ ListRoom(lines')
    BY <1>1, <2>1
  <2>3. Shown'
    BY <2>1, <2>2, ListShownNew
  <2> QED BY <1>1, <1>2, <2>1, <2>3 DEF IInv, CallInv
<1>8. CASE EnterString
  <2>1. /\ s_scroll' = scroll /\ lines' = lines /\ outer' = outer /\ open = "menu"
        /\ \E n \in Lengths \cup {0} : ShowInput(n)
    BY <1>8 DEF EnterString, Saved
  <2>2. InputRoom(lines)
    BY <1>1, <1>2, <2>1, HeightsAssumption DEF MenuRoom, InputRoom
  <2>3. InputRoom(lines')
    BY <2>1, <2>2
  <2>4. Shown'
    BY <2>1, <2>3, InputShown
  <2> QED BY <1>1, <1>2, <2>1, <2>4 DEF IInv, CallInv
<1>9. CASE Help
  <2>1. /\ open \in {"menu", "list", "input"} /\ lines' = lines /\ outer' = outer
        /\ s_scroll' = IF open = "menu" THEN scroll ELSE s_scroll
        /\ \E n \in Lengths : ShowText(n, 0)
    BY <1>9 DEF Help
  <2>2. TextRoom(lines)
    BY <2>1, TextHasRoom
  <2>3. lines' \in Heights /\ TextRoom(lines')
    BY <1>1, <2>1, <2>2
  <2>4. \A n \in Lengths : n \in Nat \ {0}
    BY WindowsAssumption
  <2>5. Shown'
    BY <2>1, <2>3, <2>4, TextShown
  <2> QED BY <1>1, <1>2, <2>1, <2>5 DEF IInv, CallInv
<1>10. CASE Tell
  <2>1. /\ open = "input" /\ lines' = lines /\ outer' = outer /\ s_scroll' = s_scroll
        /\ \/ \E n \in Lengths : ShowText(n, 0)
           \/ \E m \in Message : ShowText(m[1], m[2])
    BY <1>10 DEF Tell
  <2>2. TextRoom(lines)
    BY <2>1, TextHasRoom
  <2>3. lines' \in Heights /\ TextRoom(lines')
    BY <1>1, <2>1, <2>2
  <2>4. \A n \in Lengths : n \in Nat \ {0}
    BY WindowsAssumption
  <2>5. \A m \in Message : m[1] \in Nat \ {0} /\ m[2] \in {0, 5, 6}
    BY DEF Message
  <2>6. Shown'
    BY <2>1, <2>3, <2>4, <2>5, TextShown
  <2> QED BY <1>1, <2>1, <2>6 DEF IInv, CallInv
<1>11. CASE Return
  BY <1>1, <1>11, AgainKeeps DEF Return
<1>12. CASE TextDone
  <2>1. CASE MenuAgain(s_scroll)
    BY <1>1, <2>1, AgainKeeps
  <2>2. CASE /\ ListRoom(lines) /\ UNCHANGED <<lines, callvars>>
             /\ \E n \in Counts \ {0} : \E c \in 0 .. n - 1 : ShowList(n, c)
    <3>1. lines' \in Heights /\ ListRoom(lines')
      BY <1>1, <2>2
    <3>2. Shown'
      BY <2>2, <3>1, ListShownNew
    <3> QED BY <1>1, <2>2, <3>2 DEF IInv, CallInv, callvars
  <2>3. CASE /\ UNCHANGED <<lines, callvars>>
             /\ \E n \in Lengths \cup {0} : ShowInput(n)
    <3>1. TextRoom(lines)
      BY <1>12 DEF IInv, Shown, TextInv, TextDone
    <3>2. InputRoom(lines')
      BY <1>1, <2>3, <3>1, HeightsAssumption DEF TextRoom, InputRoom
    <3>3. Shown'
      BY <2>3, <3>2, InputShown
    <3> QED BY <1>1, <2>3, <3>3 DEF IInv, CallInv, callvars
  <2> QED BY <1>12, <2>1, <2>2, <2>3 DEF TextDone
<1>13. CASE Answer
  <2>1. CASE FirstMenu(<<>>)
    <3>1. <<>> \in Seq(Nat)
      OBVIOUS
    <3> QED BY <1>1, <2>1, <3>1, FirstKeeps
  <2>2. CASE open' = "over" /\ UNCHANGED <<lines, listvars, inputvars, textvars, callvars>>
    <3>1. Shown'
      BY <2>2, NothingShown
    <3> QED BY <1>1, <2>2, <3>1 DEF IInv, CallInv, callvars
  <2> QED BY <1>13, <2>1, <2>2 DEF Answer
<1> QED BY <1>3, <1>4, <1>5, <1>6, <1>7, <1>8, <1>9, <1>10, <1>11, <1>12, <1>13

(* A window that is drawn again in another height shows what it should, or *)
(* is given up.                                                            *)
LEMMA ResizeKeeps ==
    ASSUME IInv, Resize
    PROVE  IInv'
<1>1. lines' \in Heights /\ s_scroll \in Nat /\ outer \in Seq(Nat)
  BY DEF IInv, CallInv, Resize
<1>2. CASE ResizeMenu
  <2>1. /\ open = "menu" /\ s_scroll' = s_scroll /\ outer' = outer
        /\ items \in Nat /\ selected \in -1 .. items - 1 /\ choice \in Int /\ OnLine(items, choice)
    <3>1. /\ open = "menu" /\ lines \in Heights /\ MenuRoom(lines) /\ ListShape
          /\ max_choice = AtMost(MenuHeight(lines), items)
      BY <1>2 DEF ResizeMenu, IInv, CallInv, Shown, ListInv, Room
    <3>2. MenuHeight(lines) \in Nat \ {0}
      BY <3>1, HeightsAssumption DEF MenuRoom, MenuHeight
    <3>3. items \in Nat /\ max_choice <= items /\ (items > 0 => max_choice > 0)
      BY <3>1, <3>2 DEF ListShape, AtMost
    <3> QED BY <1>2, <3>1, <3>3 DEF ResizeMenu, callvars, ListShape, OnLine
  <2>2. CASE MenuRoom(lines')
    <3>1. DrawMenu(items, selected, s_scroll, choice, first_item) /\ open' \in {"crashed", "menu"}
      BY <1>2, <2>2 DEF ResizeMenu
    <3>2. CASE open' = "menu"
      <4>1. PICK h \in Heights : lines' = h
        BY <1>1
      <4>2. MenuRoom(h)
        BY <2>2, <4>1
      <4>3. ListInv'
        BY <1>1, <2>1, <3>1, <3>2, <4>1, <4>2, MenuDrawn
      <4>4. Shown'
        BY <3>2, <4>3 DEF Shown, InputInv, TextInv
      <4> QED BY <1>1, <2>1, <4>4 DEF IInv, CallInv
    <3>3. CASE open' = "crashed"
      BY <1>1, <2>1, <3>3, NothingShown DEF IInv, CallInv
    <3> QED BY <3>1, <3>2, <3>3
  <2>3. CASE ~MenuRoom(lines')
    <3>1. open' \in {"yesno", "over"}
      BY <1>2, <2>3 DEF ResizeMenu, Ends
    <3> QED BY <1>1, <2>1, <3>1, NothingShown DEF IInv, CallInv
  <2> QED BY <2>2, <2>3
<1>3. CASE ResizeList
  <2>1. /\ open = "list" /\ items \in Nat /\ items > 0 /\ scroll \in Nat /\ choice \in 0 .. items - 1
        /\ scroll + AtMost(ListHeight, items) <= items
    <3>1. /\ open = "list" /\ items > 0 /\ ListShape
          /\ max_choice = AtMost(ListHeight, items)
      BY <1>3 DEF ResizeList, IInv, Shown, ListInv, Room
    <3>2. items \in Nat /\ max_choice <= items /\ max_choice > 0
      BY <3>1, ListHeightAssumption DEF ListShape, AtMost
    <3> QED BY <3>1, <3>2 DEF ListShape, OnLine
  <2>2. CASE ListRoom(lines')
    <3>1. /\ DrawList(items, scroll, choice) /\ open' = "list"
          /\ s_scroll' = s_scroll /\ outer' = outer
      BY <1>3, <2>1, <2>2 DEF ResizeList, callvars
    <3>2. Shown'
      BY <1>1, <2>1, <2>2, <3>1, ListDrawn
    <3> QED BY <1>1, <3>1, <3>2 DEF IInv, CallInv
  <2>3. CASE ~ListRoom(lines')
    <3>1. outer' = outer /\ \E n \in Counts : \E sel \in -1 .. n - 1 : OpenMenu(n, sel, s_scroll)
      BY <1>3, <2>3 DEF ResizeList
    <3>2. PICK n \in Counts : \E sel \in -1 .. n - 1 : OpenMenu(n, sel, s_scroll)
      BY <3>1
    <3>3. PICK sel \in -1 .. n - 1 : OpenMenu(n, sel, s_scroll)
      BY <3>2
    <3>4. n \in Nat
      BY WindowsAssumption
    <3>5. s_scroll' = s_scroll /\ Shown'
      BY <1>1, <3>3, <3>4, MenuOpened
    <3> QED BY <1>1, <3>1, <3>5 DEF IInv, CallInv
  <2> QED BY <2>2, <2>3
<1>4. CASE ResizeInput
  <2>0. s_scroll' = s_scroll /\ outer' = outer
    BY <1>4 DEF ResizeInput, callvars
  <2>1. CASE open = "input" /\ InputRoom(lines') /\ DrawInput(strlen, offset, button) /\ open' = open
    <3>1. strlen \in 0 .. MAX_LEN /\ offset \in Nat
      BY <2>1 DEF IInv, Shown, InputInv
    <3>2. Shown'
      BY <2>1, <3>1, InputDrawn
    <3> QED BY <1>1, <2>0, <3>2 DEF IInv, CallInv
  <2>2. CASE NoInputRoom
    <3>1. open' \in {"no room", "yesno", "over"}
      BY <2>2 DEF NoInputRoom, Ends
    <3> QED BY <1>1, <2>0, <3>1, NothingShown DEF IInv, CallInv
  <2>3. CASE InputRoom(lines') /\ \E n \in Lengths \cup {0} : ShowInput(n)
    <3>1. Shown'
      BY <2>3, InputShown
    <3> QED BY <1>1, <2>0, <3>1 DEF IInv, CallInv
  <2> QED BY <1>4, <2>1, <2>2, <2>3 DEF ResizeInput
<1>5. CASE ResizeText
  <2>0. s_scroll' = s_scroll /\ outer' = outer /\ open = "text"
    BY <1>5 DEF ResizeText, callvars
  <2>1. CASE TextRoom(lines')
    <3>1. RedrawText /\ open' = "text"
      BY <1>5, <2>0, <2>1 DEF ResizeText
    <3>2. /\ length \in Nat \ {0} /\ fixed \in {0, 5, 6} /\ boxh \in Nat \ {0}
          /\ Ended(fixed) => page \in 0 .. length + 1
      BY <2>0 DEF IInv, Shown, TextInv, TextShape
    <3>3. PICK h \in Nat \ {0} : h = BoxHeight(fixed)
      BY <1>1, <2>1, <3>2, BoxFits
    <3>4. PICK p : p = Back(page, boxh + 4)
      OBVIOUS
    <3>5. /\ length' = length /\ fixed' = fixed /\ boxh' = h
          /\ begin_reached' = Begins(page, boxh + 4)
          /\ page' = After(length, Ended(fixed), p, h)
          /\ page_length' = Counted(length, Ended(fixed), p, h)
          /\ screen' = [r \in Rows(h) |-> AtMost(p + r, length)]
      BY <3>1, <3>3, <3>4 DEF RedrawText, Page
    <3>6. ASSUME Ended(fixed) PROVE TextShape'
      <4>1. boxh + 4 \in Nat \ {0}
        BY <3>2
      <4>2. p \in 0 .. length /\ begin_reached' \in BOOLEAN /\ (begin_reached' <=> p = 0)
        BY <3>2, <3>4, <3>5, <3>6, <4>1, BackFits
      <4> QED BY <3>2, <3>5, <3>6, <4>2, PagePrinted
    <3>7. Ended(fixed)' => TextShape'
      BY <3>5, <3>6 DEF Ended
    <3>8. TextInv'
      BY <2>1, <3>2, <3>5, <3>7 DEF TextInv
    <3>9. Shown'
      BY <3>1, <3>8 DEF Shown, ListInv, InputInv
    <3> QED BY <1>1, <2>0, <3>9 DEF IInv, CallInv
  <2>2. CASE ~TextRoom(lines')
    <3>1. open' \in {"no room", "yesno", "over"}
      BY <1>5, <2>2 DEF ResizeText, NoInputRoom, Ends
    <3> QED BY <1>1, <2>0, <3>1, NothingShown DEF IInv, CallInv
  <2> QED BY <2>1, <2>2
<1>6. CASE ResizeYesNo
  <2>1. s_scroll' = s_scroll /\ outer' = outer /\ open' \in {"yesno", "over"}
    BY <1>6 DEF ResizeYesNo, callvars
  <2> QED BY <1>1, <2>1, NothingShown DEF IInv, CallInv
<1> QED BY <1>2, <1>3, <1>4, <1>5, <1>6 DEF Resize
-----------------------------------------------------------------------------
(* What is shown, with how it came to be, holds throughout.                *)
LEMMA IInvHolds == Spec => []IInv
<1>1. Init => IInv
  <2> SUFFICES ASSUME Init PROVE IInv
    OBVIOUS
  <2>1. CallInv
    BY DEF Init, CallInv
  <2>2. open = "start"
    BY DEF Init
  <2> QED BY <2>1, <2>2 DEF IInv, Shown, ListInv, InputInv, TextInv
<1>2. IInv /\ [Next]_vars => IInv'
  <2> SUFFICES ASSUME IInv, [Next]_vars PROVE IInv'
    OBVIOUS
  <2>1. CASE UNCHANGED vars
    BY <2>1 DEF vars, listvars, inputvars, textvars, callvars, IInv, CallInv, Shown,
                ListInv, ListShape, ListShown, Lines, Room, InputInv, Cursor,
                TextInv, TextShape, TextTop
  <2>2. CASE Next
    BY <2>2, KeysKeep, CallsKeep, ResizeKeeps DEF Next
  <2> QED BY <2>1, <2>2
<1> QED BY <1>1, <1>2, PTL DEF Spec

(* Whatever the lists, the texts, the strings and the sizes of the screen, *)
(* the windows of menuconfig show what they hold.                          *)
THEOREM WindowsAreTrue == Spec => []WindowsTrue
<1>1. IInv => WindowsTrue
  <2> SUFFICES ASSUME IInv PROVE WindowsTrue
    OBVIOUS
  <2>1. ListTrue
    <3> SUFFICES ASSUME open \in {"menu", "list"}, items > 0 PROVE ListTrue
      BY DEF ListTrue
    <3>1. /\ lines \in Heights /\ IF open = "menu" THEN MenuRoom(lines) ELSE ListRoom(lines)
          /\ max_choice = AtMost(Room, items) /\ ListShape /\ ListShown
      BY DEF IInv, CallInv, Shown, ListInv
    <3>2. Room \in Nat \ {0}
      BY <3>1, HeightsAssumption, ListHeightAssumption DEF Room, MenuRoom, MenuHeight
    <3>3. max_choice > 0
      BY <3>1, <3>2 DEF ListShape, AtMost
    <3> QED BY <3>1, <3>3 DEF ListTrue, ListShape, ListShown, OnLine, Lines
  <2>2. InputTrue
    BY DEF InputTrue, IInv, Shown, InputInv
  <2>3. TextTrue
    <3> SUFFICES ASSUME open = "text", Ended(fixed) PROVE TextTrue
      BY DEF TextTrue
    <3>1. length \in Nat \ {0} /\ boxh \in Nat \ {0} /\ TextShape
      BY DEF IInv, Shown, TextInv
    <3>2. end_reached <=> TextTop + boxh > length
      BY <3>1 DEF TextShape, TextTop, end_reached
    <3> QED BY <3>1, <3>2 DEF TextTrue, TextShape
  <2> QED BY <2>1, <2>2, <2>3 DEF WindowsTrue
<1> QED BY <1>1, IInvHolds, PTL

(* Whatever the lists, the texts, the strings and the sizes of the screen, *)
(* a key of lxdialog moves by what it says and no further.                 *)
THEOREM KeysAreTrue == Spec => KeysMove
<1> DEFINE Moves ==
    /\ items > 0 =>
         /\ MenuUp \/ ListUp => At' = AtLeast(At - 1, 0)
         /\ MenuDown \/ ListDown => At' = AtMost(At + 1, items - 1)
         /\ MenuPageUp => At' = AtLeast(At - max_choice, 0)
         /\ MenuPageDown => At' = AtMost(At + max_choice, items - 1)
    /\ ~astray =>
         /\ Type => strlen' = strlen + 1
         /\ Backspace => strlen' = strlen - 1
         /\ BackspaceScroll => strlen' = strlen
    /\ Ended(fixed) =>
         /\ TextUp => TextTop' = TextTop - 1
         /\ TextDown => TextTop' = TextTop + 1
         /\ TextPageUp => TextTop' = AtLeast(TextTop - boxh, 0)
         /\ TextPageDown => TextTop' = TextTop + boxh
         /\ TextShift => TextTop' = TextTop
<1>1. IInv => Moves
  <2> SUFFICES ASSUME IInv PROVE Moves
    OBVIOUS
  <2>1. items > 0 =>
          /\ MenuUp \/ ListUp => At' = AtLeast(At - 1, 0)
          /\ MenuDown \/ ListDown => At' = AtMost(At + 1, items - 1)
          /\ MenuPageUp => At' = AtLeast(At - max_choice, 0)
          /\ MenuPageDown => At' = AtMost(At + max_choice, items - 1)
    BY ListStep DEF ListKeys
  <2>2. ~astray =>
          /\ Type => strlen' = strlen + 1
          /\ Backspace => strlen' = strlen - 1
          /\ BackspaceScroll => strlen' = strlen
    BY InputStep DEF InputKeys
  <2>3. Ended(fixed) =>
          /\ TextUp => TextTop' = TextTop - 1
          /\ TextDown => TextTop' = TextTop + 1
          /\ TextPageUp => TextTop' = AtLeast(TextTop - boxh, 0)
          /\ TextPageDown => TextTop' = TextTop + boxh
          /\ TextShift => TextTop' = TextTop
    BY TextStep
  <2> QED BY <2>1, <2>2, <2>3
<1>2. IInv /\ [Next]_vars => [Moves]_vars
  BY <1>1
<1> QED BY <1>2, IInvHolds, PTL DEF Spec, KeysMove
=============================================================================
