---- MODULE VirtioDevices ----
(***************************************************************************)
(* The users of a descriptor chain, each on its own chains: a Reader or    *)
(* Writer, the block device, the console and the vsock device.             *)
(***************************************************************************)
EXTENDS ChainBuffers, BlkDevice, ConsoleDevice, VsockPacket

VARIABLE device \* which of them this behaviour is about

vars == <<device, chainVars, bufferVars, blkVars, consoleVars, vsockVars>>

Init ==
    /\ device \in {"buffers", "blk", "console", "vsock"}
    /\ \E head \in 0 .. QueueSize : chain = NewChain(head)
    /\ seen = NoneSeen
    /\ BuffersInit
    /\ BlkInit
    /\ ConsoleInit
    /\ VsockInit
    /\ device # "buffers" => ~writer
    /\ device # "blk" => blk = Request({}, FALSE)
    /\ device # "vsock" => memLen = 0

Next ==
    /\ UNCHANGED device
    /\ \/ device = "buffers" /\ BuffersNext /\ UNCHANGED <<blkVars, consoleVars, vsockVars>>
       \/ device = "blk" /\ BlkNext /\ UNCHANGED <<bufferVars, consoleVars, vsockVars>>
       \/ device = "console" /\ ConsoleNext /\ UNCHANGED <<bufferVars, blkVars, vsockVars>>
       \/ device = "vsock" /\ VsockNext /\ UNCHANGED <<bufferVars, blkVars, consoleVars>>

Spec == Init /\ [][Next]_vars

====
