------------------------------- MODULE Figures -------------------------------
(***************************************************************************)
(* What TradeFigures computes, of any of the inputs it is given: a sample  *)
(* is a trailing configuration with the context it is evaluated in, or a   *)
(* position with the price it is shown at, or the positions of one         *)
(* instrument that are shown together.  A sample has no steps; the steps   *)
(* a trailing strategy counts from are those of TradeViews.                *)
(***************************************************************************)
EXTENDS TradeViews

CONSTANTS
    Configs,    \* trailing configurations
    Contexts,   \* what a trailing strategy looks at
    Positions,  \* positions
    Marks,      \* market prices, and Null when there is none
    Books       \* the positions a user has in one instrument

(* A position has a fill price once something of it is filled, and proceeds *)
(* once something of it is sold.                                            *)
IsPosition(p) ==
    /\ p \in [direction : {"LONG", "SHORT"}, trigger : Int, fill : Int \cup {Null},
              filled : Nat, exited : Nat, proceeds : Int]
    /\ p.exited <= p.filled
    /\ p.fill = Null <=> p.filled = 0
    /\ p.exited = 0 => p.proceeds = 0

ASSUME FiguresAssumption ==
    /\ Configs \subseteq [strategy : Strategies, size : Int \cup {Null}, lock : Int \cup {Null}]
    /\ Contexts \subseteq [direction : {"LONG", "SHORT"}, entry : Nat, stop : Int, mark : Nat,
                           step : Int \cup {Null}]
    /\ \A p \in Positions : IsPosition(p)
    /\ Marks \subseteq Int \cup {Null}
    /\ Books \subseteq Seq(Positions)

VARIABLE sample   \* what the figures are computed from

InitFigures ==
    \/ sample \in [kind : {"trail"}, config : Configs, context : Contexts]
    \/ sample \in [kind : {"record"}, position : Positions, mark : Marks]
    \/ sample \in [kind : {"book"}, book : Books, mark : Marks \ {Null}]

FiguresSpec == InitFigures /\ [][UNCHANGED sample]_sample

-----------------------------------------------------------------------------
TrailingProposalsHold ==
    sample.kind = "trail" => ProposalHolds(sample.config, sample.context)

RecordsReadBack ==
    sample.kind = "record" =>
      /\ ArchiveReadsBack(sample.position, sample.mark)
      /\ MarkIsRealized(sample.position, sample.mark)

NetPositionsAddUp ==
    sample.kind = "book" =>
      NetEarnsWhatLotsEarn([i \in DOMAIN sample.book |-> Record(sample.book[i], sample.mark)],
                           sample.mark)

(* What is computed of a trade.  A stop that TrailingManager proposes does   *)
(* not give back what is locked, and its steps are not ahead of the stop; an *)
(* archived trade is read back as it was shown; what is shown at a price is  *)
(* what a sale there books; and a net position earns what its lots earn.     *)
FiguresHold ==
    TrailingProposalsHold /\ StepNeverAhead /\ RecordsReadBack /\ NetPositionsAddUp
=============================================================================
