---------------------- MODULE MC_ClientsSocketsHandler ----------------------
(* The texts the runs send, and the symmetry of clients and workers.       *)
EXTENDS ClientsSocketsHandler, TLC

Get == [command |-> "get", blanks |-> 0, line |-> 7, size |-> 0, total |-> 7]
MultiGet == [command |-> "get", blanks |-> 9, line |-> 25, size |-> 0, total |-> 25]
EmptySet == [command |-> "set", blanks |-> 3, line |-> 13, size |-> 0, total |-> 15]
LongSet == [command |-> "set", blanks |-> 3, line |-> 16, size |-> 1024, total |-> 1042]

TooManyKeys == [MultiGet EXCEPT !.blanks = 10]
LongKeyOrUnknown == [command |-> "other", blanks |-> 1, line |-> 10, size |-> 0, total |-> 10]
TooLarge == [LongSet EXCEPT !.size = 1025, !.total = 1043]
WrongSize == [LongSet EXCEPT !.size = 1023]
NegativeSize == [EmptySet EXCEPT !.size = -1, !.total = 14]
FewTokens == [EmptySet EXCEPT !.blanks = 2]

SomeTexts == {Get, LongSet}
FaultyTexts == {TooManyKeys, LongKeyOrUnknown, FewTokens, TooLarge, WrongSize, NegativeSize}
MixedTexts == FaultyTexts \cup {Get, EmptySet}

Symmetry == Permutations(Clients) \cup Permutations(Workers)

=============================================================================
