-------------------------------- MODULE VfioPci --------------------------------
(***************************************************************************)
(* The parts of vfio-pci around its interrupts, side by side: the resets   *)
(* of devices on a bus (VfioReset), the capabilities shown to the guest    *)
(* (VfioCaps), the life of one device (VfioDevice).  They have no state in *)
(* common: a behaviour is one of one of them, and the others stay at their *)
(* beginning.                                                              *)
(***************************************************************************)
EXTENDS VfioReset

CONSTANTS
    End, Chips,     \* of VfioCaps
    Cards, Fails    \* of VfioDevice

VARIABLES world, chip, cfg, cache, walk, at, stack, added, found,
          card, stage, held, mmaps, handlers, events, stopped, asked

C == INSTANCE VfioCaps
D == INSTANCE VfioDevice

\* BARs are whole pages: a smaller one is not mapped at all.
ASSUME CardsAssumption ==
    \A c \in Cards : /\ c.bar \in Nat /\ c.bar > 0 /\ c.bar % D!Page = 0
                     /\ c.table \in Nat /\ c.entries \in Nat

\* Chains are lists of capabilities without a loop; an extended one has its place.
ASSUME ChipsAssumption ==
    /\ End \in Nat
    /\ \A c \in Chips : /\ C!IsChain(c.std) /\ C!IsChain(c.ext)
                        /\ c.ext # <<>> => c.ext[1].pos = 1

-----------------------------------------------------------------------------

chipvars == <<chip, cfg, cache, walk, at, stack, added, found>>
cardvars == <<card, stage, held, mmaps, handlers, events, stopped, asked>>

OneMachine == CHOOSE m \in Machines : TRUE
OneChip == CHOOSE c \in Chips : TRUE
OneCard == CHOOSE c \in Cards : TRUE

NoReset == hw = OneMachine /\ first = TRUE /\ Init
NoChip  == chip = OneChip /\ C!Init
NoCard  == card = OneCard /\ D!Init

PciInit ==
    \/ world = "reset" /\ Init   /\ NoChip /\ NoCard
    \/ world = "chip"  /\ C!Init /\ NoReset /\ NoCard
    \/ world = "card"  /\ D!Init /\ NoReset /\ NoChip

PciNext ==
    \/ world = "reset" /\ Next   /\ UNCHANGED <<world, chipvars, cardvars>>
    \/ world = "chip"  /\ C!Next /\ UNCHANGED <<world, vars, cardvars>>
    \/ world = "card"  /\ D!Next /\ UNCHANGED <<world, vars, chipvars>>

pcivars == <<world, vars, chipvars, cardvars>>

Handles(A) == world = "card" /\ A /\ UNCHANGED <<world, vars, chipvars>>

\* QEMU's main loop comes to every handler that is ready.
PciSpec ==
    /\ PciInit /\ [][PciNext]_pcivars
    /\ WF_pcivars(Handles(D!Realize)) /\ WF_pcivars(Handles(D!ErrHandler))
    /\ WF_pcivars(Handles(D!ReqHandler))

\* The guest's chains of capabilities match the device's: VfioCaps.
ChainsMatch == C!ChainsMatch

\* The life of one device: VfioDevice.
TableIsTrapped == D!TableIsTrapped
FreedHoldsNothing == D!FreedHoldsNothing
SignalsAreServed == D!SignalsAreServed
===============================================================================
