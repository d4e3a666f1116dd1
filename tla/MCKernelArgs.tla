---------------------------- MODULE MCKernelArgs ----------------------------
(* Signatures for KernelArgs: buffers with and without a pointer in the    *)
(* cross thread data, and two local arguments with a value between them.   *)
EXTENDS KernelArgs

MCSignatures ==
    {<<"stateless", "stateful">>, <<"value", "stateless">>, <<"local", "value", "local">>}

(* Ends whose lowest byte is small, negative as a character, and zero. *)
MCLocalSizes == {16, 100, 896, 960, 40960}
=============================================================================
