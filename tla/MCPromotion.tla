----------------------------- MODULE MCPromotion -----------------------------
EXTENDS PromotionPage
==============================================================================
