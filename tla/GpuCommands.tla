---------------------------- MODULE GpuCommands ----------------------------
(***************************************************************************)
(* The GEN9 command and state structures of commandsGen9.h, reduced to     *)
(* what the dispatcher's arithmetic depends on: how many bytes each of     *)
(* them occupies (the header is compiled under #pragma pack(1), so a size  *)
(* is the number of dwords times four), and the width of the bit fields    *)
(* that can truncate a value. The driver advances a heap's cursor by these *)
(* sizes and finds a structure again by subtracting them.                  *)
(***************************************************************************)
EXTENDS Integers

(* MemoryConstants *)
KiloByte      == 1024
PageSize      == 4 * KiloByte
CacheLineSize == 64

(* Commands *)
MEDIA_STATE_FLUSH_Size               == 2 * 4
MEDIA_INTERFACE_DESCRIPTOR_LOAD_Size == 4 * 4
MEDIA_VFE_STATE_Size                 == 9 * 4
STATE_BASE_ADDRESS_Size              == 19 * 4
GPGPU_CSR_BASE_ADDRESS_Size          == 3 * 4
STATE_SIP_Size                       == 3 * 4
GPGPU_WALKER_Size                    == 15 * 4
PIPE_CONTROL_Size                    == 6 * 4
PIPELINE_SELECT_Size                 == 1 * 4
MI_LOAD_REGISTER_IMM_Size            == 3 * 4
MI_BATCH_BUFFER_START_Size           == 3 * 4
MI_BATCH_BUFFER_END_Size             == 1 * 4

(* Indirect state *)
INTERFACE_DESCRIPTOR_DATA_Size == 8 * 4
BINDING_TABLE_STATE_Size       == 1 * 4
RENDER_SURFACE_STATE_Size      == 16 * 4

(* A general purpose register of GEN9 holds 32 bytes. *)
GRFSize == 32

(* ThreadWidthCounterMaximum of GPGPU_WALKER has six bits. *)
ThreadWidthField(n) == n % 64

(* The smallest multiple of the alignment that is not below n. *)
AlignUp(n, alignment) == ((n + alignment - 1) \div alignment) * alignment

(* Bytes that createCommandStreamTask appends before it pads. *)
TaskBytes ==
    2 * MEDIA_STATE_FLUSH_Size + MEDIA_INTERFACE_DESCRIPTOR_LOAD_Size
        + GPGPU_WALKER_Size + 2 * PIPE_CONTROL_Size + MI_BATCH_BUFFER_END_Size

(* Bytes that createCommandStreamReceiver appends before it pads. *)
CsrBytes ==
    PIPELINE_SELECT_Size + 3 * MI_LOAD_REGISTER_IMM_Size + 4 * PIPE_CONTROL_Size
        + GPGPU_CSR_BASE_ADDRESS_Size + MEDIA_VFE_STATE_Size
        + STATE_BASE_ADDRESS_Size + STATE_SIP_Size + MI_BATCH_BUFFER_START_Size
=============================================================================
