--------------------------- MODULE STM32Port ---------------------------
(***************************************************************************)
(* What the STM32 register-bus ports share: the translation of HAL results *)
(* (libdrivers_stm32_common.c), and the address bytes the SPI port puts on *)
(* the wire.                                                               *)
(***************************************************************************)
EXTENDS RegisterBus

HalStatus == {"HAL_OK", "HAL_ERROR", "HAL_BUSY", "HAL_TIMEOUT"}

(* Seeded fault: a busy peripheral is blamed on the arguments.             *)
CollapseBusyToArg(hal) ==
  CASE hal = "HAL_OK"      -> "OK"
    [] hal = "HAL_TIMEOUT" -> "ERR_TIMEOUT"
    [] hal = "HAL_BUSY"    -> "ERR_ARG"
    [] OTHER               -> "ERR_BUS"

(* Libdrivers_STM32_CollapseStatus.                                        *)
CollapseStatus(hal) ==
  CASE hal = "HAL_OK"      -> "OK"
    [] hal = "HAL_TIMEOUT" -> "ERR_TIMEOUT"
    [] OTHER               -> "ERR_BUS"

(* reg | 0x80 and reg & 0x7F.                                              *)
SpiReadAddress(reg)  == 128 + (reg % 128)
SpiWriteAddress(reg) == reg % 128
=============================================================================
