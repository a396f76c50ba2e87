----------------------------- MODULE P2lDecode32 ----------------------------
(***************************************************************************)
(* The P2L packet decoder (hdl/gn4124core/rtl/p2l_decode32.vhd): it takes  *)
(* the words of the deserialiser and shows header, address and data, each  *)
(* on its own bus a tick later, with the type of the packet.               *)
(*                                                                         *)
(* A word of the deserialiser is [valid, dframe, word]; the word is read   *)
(* as a header (type, cid), as a target address (bar, adr) or as data. The *)
(* length and the byte enables of the header are left out: the Wishbone    *)
(* master looks at neither.                                                *)
(***************************************************************************)
EXTENDS Integers, Sequences

CONSTANT BarSpan   \* 2^30: words of a base address region

ASSUME DecodeConstants == BarSpan \in Nat \ {0}

VARIABLES dframe_d, valid_d,     \* des_p2l_dframe_d, des_p2l_valid_d
          pkt,                   \* target_mrd, target_mwr, master_cpld, master_cpln
          hdr_strobe, hdr_cid,
          addr_cycle, addr_start, addr,
          data_cycle, d_valid, d_last, d

decodeVars == <<dframe_d, valid_d, pkt, hdr_strobe, hdr_cid, addr_cycle,
                addr_start, addr, data_cycle, d_valid, d_last, d>>

Types == {"mrd", "mwr", "cpld", "cpln"}
Blank == [type |-> "none", cid |-> 0, bar |-> 0, adr |-> 0, data |-> 0]
NoDes == [valid |-> FALSE, dframe |-> FALSE, word |-> Blank]

DecodeInit ==
    /\ dframe_d = FALSE /\ valid_d = FALSE /\ pkt = "none"
    /\ hdr_strobe = FALSE /\ hdr_cid = 0
    /\ addr_cycle = FALSE /\ addr_start = FALSE /\ addr = [bar |-> 0, adr |-> 0]
    /\ data_cycle = FALSE /\ d_valid = FALSE /\ d_last = FALSE /\ d = 0

(* Start and end packet detection. *)
PacketStart(des) == des.dframe /\ ~dframe_d /\ des.valid
PacketEnd == valid_d /\ ~dframe_d

(* Bit 26 of the header: a completion, which has no address. *)
IsCompletion(des) == des.word.type \in {"cpld", "cpln"}
Target == pkt \in {"mrd", "mwr"}

(* p_type_decode *)
TypeDecode(des) ==
    pkt' = IF PacketStart(des) THEN des.word.type
           ELSE IF PacketEnd THEN "none" ELSE pkt

(* p_header_decode *)
HeaderDecode(des) ==
    /\ hdr_strobe' = PacketStart(des)
    /\ hdr_cid' = IF PacketStart(des) THEN des.word.cid ELSE hdr_cid

(* Mutants: the counter is wider than its signal; it does not count. *)
NextAddrWide == [addr EXCEPT !.adr = @ + 1]
NextAddrSame == addr

(* The word address counts with the data, inside its region. *)
NextAddr == [addr EXCEPT !.adr = (@ + 1) % BarSpan]

(* p_addr_decode *)
AddrDecode(des) ==
    LET here == addr_cycle /\ des.valid
    IN /\ addr_cycle' = \/ PacketStart(des) /\ ~IsCompletion(des)
                        \/ addr_cycle /\ ~here
       /\ addr_start' = (Target /\ here)
       /\ addr' = IF here /\ Target THEN [bar |-> des.word.bar, adr |-> des.word.adr]
                  ELSE IF d_valid /\ Target THEN NextAddr
                  ELSE addr

(* p_data_decode *)
DataDecode(des) ==
    LET first == /\ addr_cycle \/ (PacketStart(des) /\ IsCompletion(des))
                 /\ des.valid /\ des.dframe
    IN /\ data_cycle' = (first \/ (data_cycle /\ des.dframe))
       /\ d_valid' = (data_cycle /\ des.valid)
       /\ d_last' = (data_cycle /\ ~des.dframe)
       /\ d' = IF des.valid THEN des.word.data ELSE d

(* One rising edge of clk_i. *)
DecodeTick(des) ==
    /\ dframe_d' = des.dframe /\ valid_d' = des.valid
    /\ TypeDecode(des) /\ HeaderDecode(des) /\ AddrDecode(des) /\ DataDecode(des)

(* The registers hold values of their VHDL types. *)
DecodeTypeOK ==
    /\ dframe_d \in BOOLEAN /\ valid_d \in BOOLEAN
    /\ pkt \in Types \cup {"none"} /\ hdr_strobe \in BOOLEAN /\ hdr_cid \in 0 .. 3
    /\ addr_cycle \in BOOLEAN /\ addr_start \in BOOLEAN
    /\ addr \in [bar : 0 .. 1, adr : 0 .. BarSpan - 1]
    /\ data_cycle \in BOOLEAN /\ d_valid \in BOOLEAN /\ d_last \in BOOLEAN
    /\ d \in Nat
=============================================================================
