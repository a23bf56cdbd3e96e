------------------------------ MODULE MCChatTurn ------------------------------
(***************************************************************************)
(* The parts of one chat turn: its stages and its stream, the loop of tool *)
(* calls, the packing of the prompt, and the guards of the answer. They    *)
(* share no state, so one of them is checked at a time: `part' says which. *)
(***************************************************************************)
EXTENDS ChatTurn, ToolLoop, MCContextPacking, AnswerGuard

VARIABLE part

chatTurnVars == <<part, turnVars, loopVars, packVars, guardVars>>

SomeSentences == {[claim |-> TRUE, refs |-> r] : r \in {<<>>, <<1>>, <<1, 2>>, <<3>>}}
                 \cup {[claim |-> FALSE, refs |-> <<>>]}

\* The parts that do not run keep the first of their initial states.
Idle(p) ==
    /\ p # "turn" => TurnInit /\ storage = "own"
    /\ p # "loop" => /\ LoopInit /\ offer.context = 0 /\ ~offer.admin /\ ~offer.wanted
                     /\ registry = CHOOSE r \in [Tools -> ToolType] : TRUE
    /\ p # "pack" => /\ packInput = [chunks |-> <<>>, memories |-> <<>>, history |-> <<>>,
                                     summary |-> NoSummary, extra |-> 0]
                     /\ PackInit
    /\ p # "guard" => /\ draft = [sentences |-> <<[claim |-> FALSE, refs |-> <<>>]>>,
                                  refusal |-> FALSE, personal |-> "none", sources |-> 0,
                                  above |-> {}, pii |-> TRUE]
                      /\ GuardInit

ChatTurnInit ==
    \/ part = "turn"  /\ Idle("turn")  /\ TurnInit
    \/ part = "loop"  /\ Idle("loop")  /\ LoopInit
    \/ part = "pack"  /\ Idle("pack")  /\ PackInit
    \/ part = "guard" /\ Idle("guard") /\ GuardInit

ChatTurnNext ==
    /\ UNCHANGED part
    /\ \/ part = "turn"  /\ TurnNext  /\ UNCHANGED <<loopVars, packVars, guardVars>>
       \/ part = "loop"  /\ LoopNext  /\ UNCHANGED <<turnVars, packVars, guardVars>>
       \/ part = "pack"  /\ PackNext  /\ UNCHANGED <<turnVars, loopVars, guardVars>>
       \/ part = "guard" /\ GuardNext /\ UNCHANGED <<turnVars, loopVars, packVars>>

\* The fairness of the turn's tasks and of the loop, each while it is the part that runs.
ChatTurnFairness ==
    /\ WF_turnVars(part = "turn" /\ Pipeline)     /\ WF_turnVars(part = "turn" /\ Send)
    /\ WF_turnVars(part = "turn" /\ SendSentinel) /\ WF_turnVars(part = "turn" /\ Read)
    /\ WF_loopVars(part = "loop" /\ LoopNext)

ChatTurnSpec == ChatTurnInit /\ [][ChatTurnNext]_chatTurnVars /\ ChatTurnFairness

-----------------------------------------------------------------------------
\* The types of the part that runs.
ChatTurnTypeOK ==
    CASE part = "turn"  -> TurnTypeOK
      [] part = "loop"  -> LoopTypeOK
      [] part = "pack"  -> PackTypeOK
      [] part = "guard" -> GuardTypeOK

\* The stream ends for a client that stays, and so does the loop of tool calls.
EverythingEnds == DoneArrives /\ LoopEnds
=============================================================================
