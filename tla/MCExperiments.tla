--------------------------- MODULE MCExperiments ---------------------------
EXTENDS Experiment

MCCampaigns == {
  <<"perfect_draft">>, <<"draft_capacity">>, <<"forward_fixture", "forward_joint">>,
  <<"continuation_fixture", "continuation_validate", "continuation_screen">>,
  <<"forward_fixture", "mtp_recovery", "mtp_recovery_resumed">>,
  <<"scratch_fixture", "scratch_validate", "scratch_short", "scratch_long">>,
  <<"ngram_fixture", "ngram_validate", "ngram_short">>, <<"direct_fixture", "direct_validate", "direct_short">>,
  <<"recovery_fixture", "recovery_correctness", "recovery_short", "recovery_accepted", "recovery_long">>,
  <<"cache_screen">>, <<"residency_screen", "residency_confirm">>, <<"capacity_trial">>, <<"tail_screen">>,
  <<"scratch_screen", "scratch_confirm">>, <<"route_screen", "route_confirm">>,
  <<"q8_screen", "q8_confirm", "budget_screen">>, <<"coalesced_screen">>,
  <<"expert_residency_screen", "expert_residency_state", "expert_residency_confirm">>,
  <<"stage_capacity">>, <<"stage_pressure">>, <<"stage_profile">>, <<"stage_q3">>,
  <<"submission_screen">>, <<"hyper_fusion">>, <<"q8_lookahead">>, <<"q4_packed">>, <<"block_gdn">>,
  <<"q8_block_packed">>, <<"q8_expanded_capture", "q8_expanded">>, <<"horizon_screen">>,
  <<"streamed_horizon", "horizon_early">>, <<"recovery_fixture", "recovery_early">>,
  <<"width_validate", "width_validate">>, <<"width_diagnostic", "width_screen">>, <<"streamed_fixture">>,
  <<"streamed_validate", "streamed_validate", "streamed_screen">>,
  <<"streamed_validate", "streamed_diagnostic", "streamed_preliminary">>,
  <<"combined_state", "combined_screen">>, <<"combined_state", "native_replay", "read_arrivals">>,
  <<"combined_state", "native_replay", "shared_arrivals">>, <<"combined_state", "native_replay", "scratch_lifetime">>,
  <<"combined_state", "native_replay", "validation_memory">>, <<"combined_state", "request_context">>}
=============================================================================
