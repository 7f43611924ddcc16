---------------------------------- MODULE Tron ----------------------------------
(***************************************************************************)
(* The game of tron.c: two players drive over a board, leave a trail and   *)
(* lose when they leave the board or meet a trail.  One process runs it,   *)
(* and both players share the keyboard: a turn takes at most one key.      *)
(*                                                                         *)
(* What is drawn, and how long a turn lasts, is left out.                  *)
(***************************************************************************)
EXTENDS Integers

CONSTANTS
  Canvases,  \* the sizes of the board, which follow from that of the screen
  MaxScore   \* bounds the scores

VARIABLES
  canvas,    \* width and height
  phase,     \* playing, paused, over (a key is awaited) or quit
  p1, p2,    \* x, y and dir of the players
  board,     \* the cells with a trail
  oldKey,
  result,    \* how the game ended
  player1Score, player2Score

scores == <<player1Score, player2Score>>
game == <<p1, p2, board, oldKey>>
vars == <<canvas, phase, game, result, scores>>

-----------------------------------------------------------------------------
(* Directions and keys.                                                    *)

UP == 0
DOWN == 1
LEFT == 2
RIGHT == 3

Vertical == {UP, DOWN}
Horizontal == {LEFT, RIGHT}

\* The arrow keys, and the letters of the other player.
Keys1 == [LEFT_KEY |-> LEFT, RIGHT_KEY |-> RIGHT, UP_KEY |-> UP, DOWN_KEY |-> DOWN]
Keys2 == [A_KEY |-> LEFT, D_KEY |-> RIGHT, W_KEY |-> UP, S_KEY |-> DOWN]

\* What getTimedChar returns when nothing is typed in a turn; and no key at all.
NO_KEY == "0"
UNSET == "-1"

Key == DOMAIN Keys1 \cup DOMAIN Keys2 \cup {"p", "r", NO_KEY}

\* A player turns only to the left or the right of where it is heading.
Turned(p, keys, key) ==
  IF key \in DOMAIN keys /\ (p.dir \in Vertical) = (keys[key] \in Horizontal)
  THEN [p EXCEPT !.dir = keys[key]]
  ELSE p

-----------------------------------------------------------------------------
(* Positions.                                                              *)

Start1 == [x |-> (4 * canvas.width) \div 5, y |-> canvas.height \div 2, dir |-> LEFT]
Start2 == [x |-> canvas.width \div 5, y |-> canvas.height \div 2, dir |-> RIGHT]

\* The players start on cells of their own.
ASSUME CanvasAssumption ==
  /\ Canvases \subseteq [width : Nat, height : Nat \ {0}]
  /\ \A c \in Canvases : c.width \div 5 # (4 * c.width) \div 5
ASSUME ScoreAssumption == MaxScore \in Nat

Cell(p) == <<p.x, p.y>>

isValidPoint(p) == p.x \in 0 .. canvas.width - 1 /\ p.y \in 0 .. canvas.height - 1

tick(p) ==
  CASE p.dir = UP    -> [p EXCEPT !.y = @ - 1]
    [] p.dir = DOWN  -> [p EXCEPT !.y = @ + 1]
    [] p.dir = LEFT  -> [p EXCEPT !.x = @ - 1]
    [] p.dir = RIGHT -> [p EXCEPT !.x = @ + 1]

Near(a, b) == a - b \in {-1, 0, 1}

\* The numbers of LEFT and RIGHT, of UP and DOWN, and of DOWN and LEFT differ by 1.
Opposed(p, q) == p.dir - q.dir \in {-1, 1}

\* A faulty variant: players side by side are taken for players face to face.
SideBySide(p, q) ==
  \/ p.x = q.x /\ Near(p.y, q.y) /\ p.dir \in Vertical
  \/ p.y = q.y /\ Near(p.x, q.x) /\ p.dir \in Horizontal

HeadOn(p, q) ==
  /\ Opposed(p, q)
  /\ \/ p.x = q.x /\ Near(p.y, q.y) /\ p.dir \in Vertical
     \/ p.y = q.y /\ Near(p.x, q.x) /\ (p.dir = RIGHT \/ (p.dir = LEFT /\ q.dir # DOWN))

\* Off the board the code goes on to look beside its array, which cannot turn a
\* loss into none.
Lost(p) == ~ isValidPoint(p) \/ Cell(p) \in board

DRAW == "draw"
PLAYER1_WON == "player 1 won"
PLAYER2_WON == "player 2 won"
NONE == "none"

\* A faulty variant: two players on one cell that is free have not met.
MeetUnseen(p, q) ==
  CASE HeadOn(p, q) \/ (Lost(p) /\ Lost(q)) -> DRAW
    [] Lost(p) /\ ~ Lost(q) -> PLAYER2_WON
    [] Lost(q) /\ ~ Lost(p) -> PLAYER1_WON
    [] OTHER -> NONE

\* A faulty variant: the first player is looked at first.
FirstLoses(p, q) ==
  CASE HeadOn(p, q) \/ Cell(p) = Cell(q) -> DRAW
    [] Lost(p) -> PLAYER2_WON
    [] Lost(q) -> PLAYER1_WON
    [] OTHER -> NONE

\* What becomes of the game once both have moved.
validPositions(p, q) ==
  CASE HeadOn(p, q) \/ Cell(p) = Cell(q) \/ (Lost(p) /\ Lost(q)) -> DRAW
    [] OTHER -> IF Lost(p) THEN PLAYER2_WON ELSE IF Lost(q) THEN PLAYER1_WON ELSE NONE

-----------------------------------------------------------------------------

Init ==
  /\ canvas \in Canvases
  /\ phase = "playing"
  /\ p1 = Start1 /\ p2 = Start2
  /\ board = {Cell(Start1), Cell(Start2)}
  /\ oldKey = UNSET
  /\ result = NONE /\ player1Score = 0 /\ player2Score = 0

\* startGame, up to the first key.
StartGame ==
  /\ phase' = "playing"
  /\ p1' = Start1 /\ p2' = Start2
  /\ board' = {Cell(Start1), Cell(Start2)}
  /\ oldKey' = UNSET
  /\ result' = NONE

\* A faulty variant: the trails are no longer than the players.
MarkedAlone(p, q) == {Cell(p), Cell(q)}

Marked(p, q) == board \cup {Cell(p), Cell(q)}

\* The rest of input, the moves and what follows from them.
Move(key) ==
  LET Heading(p, keys) == IF key = oldKey THEN p ELSE Turned(p, keys, key)
      q1 == tick(Heading(p1, Keys1))
      q2 == tick(Heading(p2, Keys2))
      verdict == validPositions(q1, q2)
  IN  /\ p1' = q1 /\ p2' = q2 /\ oldKey' = key
      /\ result' = verdict
      /\ player1Score' = player1Score + (IF verdict = PLAYER1_WON THEN 1 ELSE 0)
      /\ player2Score' = player2Score + (IF verdict = PLAYER2_WON THEN 1 ELSE 0)
      /\ IF verdict = NONE
         THEN phase' = "playing" /\ board' = Marked(q1, q2)
         ELSE phase' = "over" /\ UNCHANGED board

Turn == phase = "playing" /\ \E key \in Key \ {"p", "r"} : Move(key)

\* A game that is given up has no result.
Restart ==
  /\ phase = "playing" /\ phase' = "over"
  /\ UNCHANGED <<game, result, scores>>

Pause ==
  /\ phase = "playing" /\ phase' = "paused"
  /\ UNCHANGED <<game, result, scores>>

\* pause returns to input, and the turn goes on with its key.
Resume == phase = "paused" /\ Move("p")

\* After a game: n clears the scores, and every key but q starts another one.
ResetScore ==
  /\ phase = "over"
  /\ player1Score' = 0 /\ player2Score' = 0
  /\ StartGame

PlayAgain ==
  /\ phase = "over" /\ player1Score + player2Score < MaxScore
  /\ StartGame
  /\ UNCHANGED scores

\* The scores outlive the process: it ends by q, or is killed by Ctrl-C.
Quit ==
  /\ phase = "over" /\ phase' = "quit"
  /\ UNCHANGED <<game, result, scores>>

Killed ==
  /\ phase \in {"playing", "paused", "over"} /\ phase' = "quit"
  /\ UNCHANGED <<game, result, scores>>

Launch ==
  /\ phase = "quit" /\ player1Score + player2Score < MaxScore
  /\ StartGame
  /\ UNCHANGED scores

Next ==
  /\ Turn \/ Restart \/ Pause \/ Resume \/ ResetScore \/ PlayAgain \/ Quit \/ Killed \/ Launch
  /\ UNCHANGED canvas

Spec == Init /\ [][Next]_vars

\* A turn ends by itself: sys_timedRead returns.
FairSpec == Spec /\ WF_vars(Turn /\ UNCHANGED canvas)

-----------------------------------------------------------------------------
(* Properties.                                                             *)

Player == [x : Int, y : Int, dir : Vertical \cup Horizontal]

TypeOK ==
  /\ canvas \in Canvases
  /\ phase \in {"playing", "paused", "over", "quit"}
  /\ p1 \in Player /\ p2 \in Player
  /\ board \subseteq (0 .. canvas.width - 1) \X (0 .. canvas.height - 1)
  /\ oldKey \in Key \cup {UNSET}
  /\ result \in {DRAW, PLAYER1_WON, PLAYER2_WON, NONE}
  /\ player1Score \in Nat /\ player2Score \in Nat

Unharmed(p) == Cell(p) \in ((0 .. canvas.width - 1) \X (0 .. canvas.height - 1)) \ board

\* A game goes on only when both have moved to cells of the board with no trail on
\* them, and to different ones: no cell is driven over twice, by one player, by the
\* two in turn or by the two at a time, and the trails are all that is on the board.
TrailsNeverMeet ==
  [][phase' = "playing" /\ phase \in {"playing", "paused"} =>
       /\ Cell(p1') # Cell(p2')
       /\ {Cell(p1'), Cell(p2')} \cap board = {}
       /\ board' = board \cup {Cell(p1'), Cell(p2')}
       /\ board' \subseteq (0 .. canvas.width - 1) \X (0 .. canvas.height - 1)]_vars

\* A point is given to one player at a time, who could have gone on, and only when
\* the other could not: a cell off the board or with a trail, be it the winner's.
WinnerIsUnharmed ==
  [][/\ player1Score' > player1Score => Unharmed(p1)' /\ ~ Unharmed(p2)' /\ player2Score' = player2Score
     /\ player2Score' > player2Score => Unharmed(p2)' /\ ~ Unharmed(p1)' /\ player1Score' = player1Score]_vars

\* The next move would take each to where the other is.
FaceToFace == Cell(tick(p1)) = Cell(p2) /\ Cell(tick(p2)) = Cell(p1)

\* What is taken for a head-on crash by mistake: the numbers of DOWN and LEFT are
\* as far apart as those of UP and DOWN.
Misjudged == p1.dir = DOWN /\ p2.dir = LEFT /\ p1.x = p2.x /\ Near(p1.y, p2.y)

\* Nobody wins when neither player can go on, when they meet, or when they are about
\* to; and also, whoever could go on, when the first player comes down and the
\* second from the right into the same column.
DrawIsMutual ==
  /\ TypeOK
  /\ phase = "over" /\ result = DRAW =>
       \/ ~ Unharmed(p1) /\ ~ Unharmed(p2)
       \/ Cell(p1) = Cell(p2)
       \/ FaceToFace
       \/ Misjudged

\* Every game ends or is paused, whatever is typed: a trail takes up cells, and there
\* are finitely many.
GameEnds == phase = "playing" ~> phase # "playing"
==================================================================================
