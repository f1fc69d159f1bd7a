---------------------------- MODULE MCLearnerDays ---------------------------
EXTENDS LearnerDays
=============================================================================
