--------------------------------- MODULE Frame ---------------------------------
(***************************************************************************)
(* The frames the panel is sent (image.rs): where every byte of an image   *)
(* goes, and which bytes the notice is drawn in. An image and a frame are  *)
(* functions from 0..FRAME_BYTES-1 to bytes, numbered as in the code; the  *)
(* image is RGB from the top, the frame BGR from the bottom. Decoding and  *)
(* resizing are a library's, and the letters of the notice are any dots.   *)
(***************************************************************************)
EXTENDS FipProtocol, TLAPS

Rows == 0..HEIGHT - 1
Columns == 0..WIDTH - 1
Channels == 0..2
Bytes == {i \in Nat : i < FRAME_BYTES}

-----------------------------------------------------------------------------
(* Images. *)

\* payload_y_for_pixel, for BottomUp.
PayloadY(logical_y) == HEIGHT - 1 - logical_y

SourceOffset(y, x) == y * WIDTH * 3 + x * 3
TargetOffset(y, x) == (PayloadY(y) * WIDTH + x) * 3

\* encode_rgb_bytes, for Bgr: the channel of the image that becomes channel c.
EncodedFrom(c) == 2 - c

\* The loops over rows, columns and channels, all of whose writes count.
FrameFromTopDown(rgb) ==
    [byte \in Bytes |->
        LET write == CHOOSE w \in Rows \X Columns \X Channels :
                        TargetOffset(w[1], w[2]) + w[3] = byte
        IN  rgb[SourceOffset(write[1], write[2]) + EncodedFrom(write[3])]]

-----------------------------------------------------------------------------
(* The notice. *)

NoticeLine(length, top, scale) == [length |-> length, top |-> top, scale |-> scale]
StreamLost == NoticeLine(11, 88, 4)
WaitingForFrames == NoticeLine(18, 144, 2)

LineWidth(line) == (line.length * 6 - 1) * line.scale
LineLeft(line) == (WIDTH - LineWidth(line)) \div 2

\* The dots of a line: letter, row and column of the font, and the place within a dot.
Dots(line) == (0..line.length - 1) \X (0..6) \X (0..4) \X (0..line.scale - 1) \X (0..line.scale - 1)
DotRow(line, d) == line.top + d[2] * line.scale + d[4]
DotColumn(line, d) == LineLeft(line) + (d[1] * 6 + d[3]) * line.scale + d[5]

-----------------------------------------------------------------------------
(* Theorems. *)

\* A frame is 240 rows of 960 bytes.
LEMMA FrameSize ==
    /\ FRAME_BYTES = 240 * 960
    /\ \A i : i \in Bytes <=> i \in Int /\ 0 <= i /\ i < 240 * 960
<1>1. FRAME_BYTES = 240 * 960
  BY DEF FRAME_BYTES, WIDTH, HEIGHT
<1> QED BY <1>1 DEF Bytes

\* No two writes of the conversion go to the same byte of the frame.
LEMMA WritesDiffer ==
    ASSUME NEW y1 \in Rows, NEW x1 \in Columns, NEW c1 \in Channels,
           NEW y2 \in Rows, NEW x2 \in Columns, NEW c2 \in Channels,
           TargetOffset(y1, x1) + c1 = TargetOffset(y2, x2) + c2
    PROVE  y1 = y2 /\ x1 = x2 /\ c1 = c2
<1>1. c1 = c2 /\ PayloadY(y1) * WIDTH + x1 = PayloadY(y2) * WIDTH + x2
  BY DEF TargetOffset, PayloadY, Rows, Columns, Channels, HEIGHT, WIDTH
<1>2. QED
  BY <1>1 DEF PayloadY, Rows, Columns, HEIGHT, WIDTH

\* Every byte of the frame is written: none keeps the zero it is allocated with
\* (frame_from_top_down_rgb_bytes).
THEOREM EveryByteWritten ==
    \A byte \in Bytes : \E y \in Rows, x \in Columns, c \in Channels :
        TargetOffset(y, x) + c = byte
<1> SUFFICES ASSUME NEW byte \in Bytes
             PROVE  \E y \in Rows, x \in Columns, c \in Channels : TargetOffset(y, x) + c = byte
  OBVIOUS
<1> DEFINE row == byte \div 960
           rest == byte - 960 * row
           column == rest \div 3
           channel == rest - 3 * column
<1>1. row \in 0..239 /\ rest \in 0..959
  <2>1. byte \in Int /\ 0 <= byte /\ byte < 240 * 960
    BY FrameSize
  <2> QED BY <2>1
<1>2. column \in 0..319 /\ channel \in 0..2
  <2> HIDE DEF row, rest
  <2> QED BY <1>1
<1>3. byte = 960 * row + 3 * column + channel
  <2> row \in Int /\ byte \in Int
    BY <1>1, FrameSize
  <2> HIDE DEF row
  <2> rest \in Int
    OBVIOUS
  <2> column \in Int
    BY <1>2
  <2> HIDE DEF column
  <2> QED OBVIOUS
<1> HIDE DEF row, column, channel, rest
<1>4. 239 - row \in Rows /\ column \in Columns /\ channel \in Channels
  BY <1>1, <1>2 DEF Rows, Columns, Channels, HEIGHT, WIDTH
<1>5. TargetOffset(239 - row, column) + channel = byte
  BY <1>1, <1>2, <1>3 DEF TargetOffset, PayloadY, HEIGHT, WIDTH
<1> QED BY <1>4, <1>5

\* Every pixel of the image is found in the frame where the panel looks for it: its row
\* counted from the bottom, its column the same, its blue byte first. So nothing of the
\* image is lost, overwritten or mirrored, whatever it shows (encoded_image_to_fip_frame).
THEOREM PixelsArrive ==
    ASSUME NEW rgb, NEW y \in Rows, NEW x \in Columns, NEW c \in Channels
    PROVE  FrameFromTopDown(rgb)[((HEIGHT - 1 - y) * WIDTH + x) * 3 + c]
             = rgb[(y * WIDTH + x) * 3 + (2 - c)]
<1> DEFINE Hits(w) == TargetOffset(w[1], w[2]) + w[3] = TargetOffset(y, x) + c
           write == CHOOSE w \in Rows \X Columns \X Channels : Hits(w)
<1>1. TargetOffset(y, x) + c \in Bytes
  BY FrameSize DEF TargetOffset, PayloadY, Rows, Columns, Channels, HEIGHT, WIDTH
<1>2. \E w \in Rows \X Columns \X Channels : Hits(w)
  BY <<y, x, c>> \in Rows \X Columns \X Channels
<1>3. write \in Rows \X Columns \X Channels /\ Hits(write)
  BY <1>2
<1>4. FrameFromTopDown(rgb)[TargetOffset(y, x) + c]
        = rgb[SourceOffset(write[1], write[2]) + EncodedFrom(write[3])]
  BY <1>1 DEF FrameFromTopDown
<1> HIDE DEF write
<1>5. write[1] = y /\ write[2] = x /\ write[3] = c
  BY <1>3, WritesDiffer
<1>6. ((HEIGHT - 1 - y) * WIDTH + x) * 3 + c = TargetOffset(y, x) + c
  BY DEF TargetOffset, PayloadY
<1>7. (y * WIDTH + x) * 3 + (2 - c) = SourceOffset(y, x) + EncodedFrom(c)
  BY DEF SourceOffset, EncodedFrom, Rows, Columns, Channels, HEIGHT, WIDTH
<1> QED BY <1>4, <1>5, <1>6, <1>7

\* The notice fits: every dot of both lines lies in the row and the column it is meant
\* for, so the unchecked subtraction and the slice of draw_notice_line never panic, no
\* letter is continued at the other edge, and the lines do not touch.
THEOREM NoticeInRow ==
    /\ \A line \in {StreamLost, WaitingForFrames} :
          /\ LineWidth(line) <= WIDTH
          /\ \A d \in Dots(line) : DotRow(line, d) \in Rows /\ DotColumn(line, d) \in Columns
    /\ \A d \in Dots(StreamLost), e \in Dots(WaitingForFrames) :
          DotRow(StreamLost, d) + 1 < DotRow(WaitingForFrames, e)
<1>1. /\ StreamLost.length = 11 /\ StreamLost.top = 88 /\ StreamLost.scale = 4
      /\ WaitingForFrames.length = 18 /\ WaitingForFrames.top = 144 /\ WaitingForFrames.scale = 2
  BY DEF StreamLost, WaitingForFrames, NoticeLine
<1>2. /\ LineWidth(StreamLost) = 260 /\ LineLeft(StreamLost) = 30
      /\ LineWidth(WaitingForFrames) = 214 /\ LineLeft(WaitingForFrames) = 53
  BY <1>1 DEF LineWidth, LineLeft, WIDTH
<1>3. ASSUME NEW d \in Dots(StreamLost)
      PROVE  /\ DotRow(StreamLost, d) \in 88..115
             /\ DotColumn(StreamLost, d) \in Columns
  <2>1. /\ d[1] \in 0..10 /\ d[2] \in 0..6 /\ d[3] \in 0..4
        /\ d[4] \in 0..3 /\ d[5] \in 0..3
    BY <1>1 DEF Dots
  <2> QED BY <1>1, <1>2, <2>1 DEF DotRow, DotColumn, Columns, WIDTH
<1>4. ASSUME NEW d \in Dots(WaitingForFrames)
      PROVE  /\ DotRow(WaitingForFrames, d) \in 144..157
             /\ DotColumn(WaitingForFrames, d) \in Columns
  <2>1. /\ d[1] \in 0..17 /\ d[2] \in 0..6 /\ d[3] \in 0..4
        /\ d[4] \in 0..1 /\ d[5] \in 0..1
    BY <1>1 DEF Dots
  <2> QED BY <1>1, <1>2, <2>1 DEF DotRow, DotColumn, Columns, WIDTH
<1>5. 88..115 \subseteq Rows /\ 144..157 \subseteq Rows
  BY DEF Rows, HEIGHT
<1>6. ASSUME NEW d \in Dots(StreamLost), NEW e \in Dots(WaitingForFrames)
      PROVE  DotRow(StreamLost, d) + 1 < DotRow(WaitingForFrames, e)
  BY <1>3, <1>4
<1>7. LineWidth(StreamLost) <= WIDTH /\ LineWidth(WaitingForFrames) <= WIDTH
  BY <1>2 DEF WIDTH
<1> QED BY <1>3, <1>4, <1>5, <1>6, <1>7
=============================================================================
