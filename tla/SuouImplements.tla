--------------------------- MODULE SuouImplements ---------------------------
(***************************************************************************)
(* The service engine implements FwSlots.  The running slot is the active  *)
(* one of the copy of the product header that the boot loader goes by, the *)
(* selected slot the one to which that copy points for the update: it      *)
(* changes when the primary copy is written, or torn, after the backup.    *)
(***************************************************************************)
EXTENDS SuouService

Update == INSTANCE FwSlots
            WITH Slots    <- Slots,
                 Contents <- Cells,
                 Complete <- SlotComplete,
                 running  <- BootCopy(ph).active,
                 selected <- BootCopy(ph).update,
                 images   <- flash

(* Every step of the engine, and every failure, is a step of the abstract  *)
(* update: many writes to two copies of the product header, with power     *)
(* lost between or inside them, look like the selection of a complete slot *)
(* in one step.                                                            *)
ImplementsFwSlots == Update!Spec

=============================================================================
