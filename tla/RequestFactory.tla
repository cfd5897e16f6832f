--------------------------- MODULE RequestFactory ---------------------------
(***************************************************************************)
(* RequestFactory.tryParseClientRequest: what the parser makes of the      *)
(* bytes read so far.  A text is what a client sends as one request:       *)
(*   command  "get", "set" or "other"                                      *)
(*   blanks   the blanks of the first line behind the command              *)
(*   line     the length of the first line with its CRLF                   *)
(*   size     the size of the datablock the line of a set declares; a size *)
(*            that is no number stands with those that are too large       *)
(*   total    the length of the whole text                                 *)
(* and a message is the part of a text that is in the buffer: its first    *)
(* byte (from) and its length.                                             *)
(***************************************************************************)
EXTENDS Integers

MAX_MULTIGETS_SIZE == 10
MAX_DATABLOCK_SIZE == 1024

Text == [command : {"get", "set", "other"}, blanks : Nat, line : Nat,
         size : Int, total : Nat]

(* A text that memcached's protocol and the limits of the middleware allow. *)
WellFormed(text) ==
  CASE text.command = "get" ->
         text.blanks < MAX_MULTIGETS_SIZE /\ text.total = text.line
    [] text.command = "set" ->
         /\ text.blanks = 3
         /\ text.size \in 0 .. MAX_DATABLOCK_SIZE
         /\ text.total = text.line + text.size + 2
    [] OTHER -> FALSE

(* startsWithGet, startsWithSet: a message that lost its first bytes does  *)
(* not start with a command.                                               *)
StartsWith(text, from, command) == from = 0 /\ text.command = command

(* The scan for the end of the first line takes two bytes at a time: on a  *)
(* line without its end, the second get throws BufferUnderflowException,   *)
(* unless too many blanks were met before (allowed: the blanks a line may  *)
(* have). Behind the command alone there is nothing to scan.               *)
OpenLine(text, length, allowed) ==
  IF length = 4 THEN {"incomplete"}
  ELSE IF text.blanks > allowed THEN {"faulty", "throws"}
  ELSE {"throws"}

GetOutcomes(text, length) ==
  IF length < text.line THEN OpenLine(text, length, MAX_MULTIGETS_SIZE - 1)
  ELSE IF text.blanks >= MAX_MULTIGETS_SIZE \/ length > text.line THEN {"faulty"}
  ELSE {"request"}

(* MUTANT: the bytes behind the datablock are not compared with the limit. *)
DatablockEndsBefore(text, length) == length >= text.line

(* nextNewlinePosIsCorrect, and nothing behind it: the text ends where its *)
(* first line says and the message holds all of it. Of a negative size,    *)
(* the newline would have to lie within that of the first line.            *)
DatablockEnds(text, length) ==
  /\ text.size >= 0
  /\ text.total = text.line + text.size + 2
  /\ length = text.total

(* MUTANT: a message that ends with its first line is not waited for.      *)
SetOutcomesAtOnce(text, length) ==
  IF length < text.line THEN OpenLine(text, length, 3)
  ELSE IF text.blanks > 3 THEN {"faulty"}
  ELSE IF text.blanks < 3 \/ text.line + text.size < 0 THEN {"throws"}
  ELSE IF text.size > MAX_DATABLOCK_SIZE \/ ~DatablockEnds(text, length)
       THEN {"faulty"}
  ELSE {"request"}

(* Without a third blank numBytesPos is -1 and the substring throws; with  *)
(* a size so negative that the datablock would end before the message, the *)
(* absolute get of nextNewlinePosIsCorrect does.                           *)
SetOutcomes(text, length) ==
  IF length < text.line THEN OpenLine(text, length, 3)
  ELSE IF text.blanks > 3 THEN {"faulty"}
  ELSE IF length = text.line THEN {"incomplete"}
  ELSE IF text.blanks < 3 \/ text.line + text.size < 0 THEN {"throws"}
  ELSE IF text.size > MAX_DATABLOCK_SIZE \/ ~DatablockEnds(text, length)
       THEN {"faulty"}
  ELSE {"request"}

(* "request", "incomplete" (IncompleteRequestException), "faulty"          *)
(* (FaultyRequestException) or "throws" (an unchecked exception).          *)
tryParseClientRequest(text, from, length) ==
  IF length < 4 THEN {"incomplete"}
  ELSE IF StartsWith(text, from, "get") THEN GetOutcomes(text, length)
  ELSE IF StartsWith(text, from, "set") THEN SetOutcomes(text, length)
  ELSE {"faulty"}

(* MUTANT: an incomplete message is read over by what follows it.          *)
PositionRewound(length) == 0

(* Where an incomplete message leaves the position: the flip has set it to *)
(* 0, and a message of less than four bytes is not looked at any further.  *)
PositionAfterIncomplete(length) == IF length < 4 THEN 0 ELSE length

=============================================================================
