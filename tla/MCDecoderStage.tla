--------------------------- MODULE MCDecoderStage ---------------------------
(* A prompt of two tokens or of one, then the decode stage, over two layers. *)
EXTENDS DecoderStage

Libraries == {{}, {"gemv_hidden_hidden", "decoder_rope"},
              {"gemv_intermediate_hidden", "gemv_hidden_vocabulary",
               "decoder_residual_rmsnorm", "decoder_gated_mlp"}}
\* Only where an option makes a difference it takes both values.
MCConfigurations ==
  {c \in [fusion : BOOLEAN, paged : BOOLEAN, single : BOOLEAN,
          filtered : {{}, {"rmsnorm_qkv"}, {"paged_attention_output_projection"}},
          registry : Libraries] :
    /\ c.filtered # {} => c.fusion /\ c.registry = {}
    /\ "paged_attention_output_projection" \in c.filtered => c.paged
    /\ c.single => "gemv_hidden_vocabulary" \in c.registry}
MCCompilations == {<<2, 1>>, <<1, 1>>}
=============================================================================
