------------------------------ MODULE MC_HyCapi ------------------------------
(* Two applications, a three-slot ring, one restart.                        *)
EXTENDS HyCapi

\* One rp asking for more than the data window with short blocks, and
\* level3cnt = -1 (one connection per B channel).
MCParams == {[level3cnt |-> -1, datablkcnt |-> 10, datablklen |-> 128]}

\* A well-formed 64-bit DATA_B3_IND, a 32-bit one (MsgLen 22), one whose
\* MsgLen is longer than the buffer, one with MsgLen 26 (the 8-byte pad
\* outgrows the 4 bytes allowed for it), and connection messages naming
\* an application id inside and outside the table.
MCRxPackets ==
    {[cmd |-> "DATA_B3_IND", len |-> 40, msgLen |-> 30, appl |-> 1, info |-> 0],
     [cmd |-> "DATA_B3_IND", len |-> 40, msgLen |-> 22, appl |-> 1, info |-> 0],
     [cmd |-> "DATA_B3_IND", len |-> 12, msgLen |-> 26, appl |-> 1, info |-> 0],
     [cmd |-> "DATA_B3_IND", len |-> 40, msgLen |-> 26, appl |-> 1, info |-> 0],
     [cmd |-> "CONNECT_B3_IND", len |-> 20, msgLen |-> 20, appl |-> 2, info |-> 0],
     [cmd |-> "CONNECT_B3_CONF", len |-> 20, msgLen |-> 20, appl |-> 0, info |-> 0]}
=============================================================================
